---------------------------- MODULE Spec2Model ----------------------------
(***************************************************************************)
(* A model of the sustainable-eco-report chat application: the dataset     *)
(* accessors and metric tools of backend/mcp_server.py and                 *)
(* mcp-service/src/server.py, the keyword router of                        *)
(* frontend/flask_app_simple.py and the /chat handlers of                  *)
(* frontend/flask_app.py, backend/app.py and backend/app_with_mcp.py.      *)
(*                                                                         *)
(* Text is a sequence of one-character strings, so that "keyword in        *)
(* message" is substring search and lower()/strip() are computed.  A data  *)
(* frame is a record of its column names and its rows; an absent cell is   *)
(* NULL and a mean is kept exact as a fraction, or NaN.  json.dumps is     *)
(* modelled as producing text from the dictionary it is given; the JSON    *)
(* encoder's treatment of numpy scalar types is outside the model.         *)
(***************************************************************************)
EXTENDS Integers, Sequences, FiniteSets, TLC

VARIABLES
    proc,           \* the process a behaviour follows: a tool server or a web app
    file,           \* dataset/building_413_data.csv as it is on disk
    cache,          \* backend/mcp_server.py: _DATASET_CACHE
    building_data,  \* mcp-service/src/server.py: building_data
    data_loaded,    \* mcp-service/src/server.py: data_loaded
    out,            \* the last tool call: its name, arguments and result
    pc,             \* where the request being handled stands
    msg,            \* the request's "message" field
    env,            \* how the external services answer this request
    resp,           \* the response sent (status, source/type, body)
    calls,          \* the tools and services invoked for this request, in order
    threads,        \* the tool calls in progress, one per thread: where each stands
    page,           \* flask_app_simple.py: the last report a formatter rendered
    mcp_client,     \* report-service/app.py: report_generator.mcp_client
    summary         \* report-service/app.py: the summary of the last /report response

vars == <<proc, file, cache, building_data, data_loaded, out, pc, msg, env, resp, calls,
          threads, page, mcp_client, summary>>

---------------------------------------------------------------------------
(* Bounds of the model. *)

\* Longest dataset file, in rows.
MaxRows == 2
\* Timestamps of rows and date arguments range over 1..MaxTime (hours since
\* the start of the first day of the dataset).
MaxTime == 2
\* Longest message, in words of Vocabulary.
MaxWords == 2
\* Tool calls running at the same time.
MaxThreads == 2
\* Most rows of a file given to the analysis service alone.
MaxServiceRows == 5
\* The readings of the wall clock range over 1..MaxClock (seconds).
MaxClock == 2

---------------------------------------------------------------------------
(* Text: the keyword lists of the handlers, the words of the messages and *)
(* the string operations.                                                  *)

\* frontend/flask_app_simple.py:514, help_keywords (the Arabic words are written letter by letter, arXXX = U+0XXX)
help_keywords ==
    { <<"l","i","s","t">>,
      <<"b","u","i","l","d","i","n","g","s">>,
      <<"a","v","a","i","l","a","b","l","e">>,
      <<"h","e","l","p">>,
      <<"h","e","l","l","o">>,
      <<"h","i">>,
      <<"ar645","ar633","ar627","ar639","ar62F","ar629">>,
      <<"ar645","ar631","ar62D","ar628","ar627">>,
      <<"ar645","ar639","ar644","ar648","ar645","ar627","ar62A">>,
      <<"ar633","ar627","ar639","ar62F","ar646","ar64A">> }

\* frontend/flask_app.py:84, the help keywords of the agent frontend
help_keywords_agent ==
    { <<"l","i","s","t">>,
      <<"b","u","i","l","d","i","n","g","s">>,
      <<"a","v","a","i","l","a","b","l","e">>,
      <<"h","e","l","p">> }

\* frontend/flask_app_simple.py:570
energy_keywords ==
    { <<"e","n","e","r","g","y">>,
      <<"s","t","a","t","s">>,
      <<"c","o","n","s","u","m","p","t","i","o","n">>,
      <<"ar637","ar627","ar642","ar629">>,
      <<"ar625","ar62D","ar635","ar627","ar626","ar64A","ar627","ar62A">>,
      <<"ar627","ar633","ar62A","ar647","ar644","ar627","ar643">>,
      <<"ar627","ar62D","ar635","ar644">> }

\* frontend/flask_app_simple.py:572
sustainability_group_keywords ==
    { <<"s","u","s","t","a","i","n","a","b","i","l","i","t","y">>,
      <<"m","e","t","r","i","c","s">>,
      <<"ar627","ar633","ar62A","ar62F","ar627","ar645","ar629">>,
      <<"ar645","ar642","ar627","ar64A","ar64A","ar633">>,
      <<"ar628","ar64A","ar626","ar629">> }

\* frontend/flask_app_simple.py:574
carbon_keywords ==
    { <<"c","a","r","b","o","n">>,
      <<"f","o","o","t","p","r","i","n","t">>,
      <<"e","c","o">>,
      <<"i","m","p","a","c","t">>,
      <<"ar643","ar631","ar628","ar648","ar646">>,
      <<"ar628","ar635","ar645","ar629">>,
      <<"ar627","ar62D","ar633","ar628">> }

\* frontend/flask_app_simple.py:577
water_keywords ==
    { <<"w","a","t","e","r">>,
      <<"ar645","ar627","ar621">>,
      <<"ar645","ar64A","ar627","ar647">> }

\* frontend/flask_app_simple.py:580
environment_keywords ==
    { <<"t","e","m","p","e","r","a","t","u","r","e">>,
      <<"h","u","m","i","d","i","t","y">>,
      <<"c","o","2">>,
      <<"a","i","r">>,
      <<"ar62D","ar631","ar627","ar631","ar629">>,
      <<"ar631","ar637","ar648","ar628","ar629">>,
      <<"ar647","ar648","ar627","ar621">> }

\* backend/app.py:30
report_keywords ==
    { <<"r","e","p","o","r","t">>,
      <<"a","n","a","l","y","z","e">>,
      <<"s","u","s","t","a","i","n","a","b","i","l","i","t","y">>,
      <<"b","u","i","l","d","i","n","g"," ","d","a","t","a">>,
      <<"e","n","v","i","r","o","n","m","e","n","t","a","l">>,
      <<"c","o","2">>,
      <<"t","e","m","p","e","r","a","t","u","r","e">>,
      <<"h","u","m","i","d","i","t","y">>,
      <<"o","c","c","u","p","a","n","c","y">> }

\* backend/app_with_mcp.py:44-48
sustainability_keywords ==
    { <<"e","n","e","r","g","y">>,
      <<"c","o","n","s","u","m","p","t","i","o","n">>,
      <<"s","u","s","t","a","i","n","a","b","i","l","i","t","y">>,
      <<"c","a","r","b","o","n">>,
      <<"f","o","o","t","p","r","i","n","t">>,
      <<"w","a","t","e","r">>,
      <<"u","s","a","g","e">>,
      <<"b","u","i","l","d","i","n","g">>,
      <<"m","e","t","r","i","c","s">>,
      <<"e","c","o">>,
      <<"e","n","v","i","r","o","n","m","e","n","t","a","l">>,
      <<"r","e","c","o","m","m","e","n","d">>,
      <<"a","n","a","l","y","z","e">>,
      <<"r","e","p","o","r","t">>,
      <<"s","t","a","t","i","s","t","i","c","s">> }

\* The words messages are built from: one or more per keyword group, upper-case
\* spellings, words that only contain a keyword (this: hi, economy: eco, al-rutuba:
\* rutuba), a word no list matches (weather).
Vocabulary ==
    << <<"e","n","e","r","g","y">>,
       <<"s","u","s","t","a","i","n","a","b","i","l","i","t","y">>,
       <<"c","a","r","b","o","n">>,
       <<"w","a","t","e","r">>,
       <<"C","O","2">>,
       <<"h","e","l","p">>,
       <<"t","h","i","s">>,
       <<"e","c","o","n","o","m","y">>,
       <<"w","e","a","t","h","e","r">>,
       <<"ar627","ar644","ar631","ar637","ar648","ar628","ar629">>,
       <<"ar627","ar62D","ar633","ar628">>,
       <<"ar645","ar633","ar627","ar639","ar62F","ar629">> >>

\* str.lower() on one character (frontend/flask_app_simple.py:508); a
\* character without case, an Arabic letter among them, is unchanged.
LowerChar(c) ==
    CASE c = "A" -> "a" [] c = "B" -> "b" [] c = "C" -> "c" [] c = "D" -> "d"
      [] c = "E" -> "e" [] c = "F" -> "f" [] c = "G" -> "g" [] c = "H" -> "h"
      [] c = "I" -> "i" [] c = "J" -> "j" [] c = "K" -> "k" [] c = "L" -> "l"
      [] c = "M" -> "m" [] c = "N" -> "n" [] c = "O" -> "o" [] c = "P" -> "p"
      [] c = "Q" -> "q" [] c = "R" -> "r" [] c = "S" -> "s" [] c = "T" -> "t"
      [] c = "U" -> "u" [] c = "V" -> "v" [] c = "W" -> "w" [] c = "X" -> "x"
      [] c = "Y" -> "y" [] c = "Z" -> "z"
      [] OTHER -> c

Lower(s) == [i \in 1..Len(s) |-> LowerChar(s[i])]

\* str.strip(): leading and trailing white space removed.
RECURSIVE LStrip(_)
LStrip(s) == IF s # <<>> /\ Head(s) = " " THEN LStrip(Tail(s)) ELSE s

RECURSIVE RStrip(_)
RStrip(s) ==
    IF s # <<>> /\ s[Len(s)] = " " THEN RStrip(SubSeq(s, 1, Len(s) - 1)) ELSE s

Strip(s) == LStrip(RStrip(s))

\* "kw in s" for strings: kw occurs in s as a contiguous run of characters.
Contains(s, kw) ==
    \E i \in 0..(Len(s) - Len(kw)) :
        \A j \in 1..Len(kw) : s[i + j] = kw[j]

\* any(keyword in s for keyword in keywords)
AnyKeyword(s, keywords) == \E kw \in keywords : Contains(s, kw)

---------------------------------------------------------------------------
(* The dataset. *)

\* A cell without a value (pandas NaN); every value of the model is >= 0.
NULL == -1
\* A date that pd.to_datetime cannot parse, as a cell or as an argument.
BadDate == 0
\* start_date / end_date not given (None or "", both false in Python).
NoDate == NULL

Times == 1..MaxTime

\* The columns create_dataset.py writes, and the two a tool tests for.
SensorCols == {"co2", "temperature", "humidity", "light", "pir"}
FullCols == {"datetime", "building_id"} \cup SensorCols
\* Columns pandas reads as float64/int64 when the file has rows.
NumericCols == SensorCols \cup {"building_id", "energy_kwh"}

\* The column sets of the files of the model: as written by
\* create_dataset.py; with the time column named timestamp; with an energy
\* column; without any sensor column.
ColSets ==
    { FullCols,
      (FullCols \ {"datetime"}) \cup {"timestamp"},
      FullCols \cup {"energy_kwh"},
      {"datetime", "building_id"} }

\* One reading.  t is the value of the time column, whatever its name.
Row(t, co2, temperature, humidity, pir, energy) ==
    [t |-> t, co2 |-> co2, temperature |-> temperature, humidity |-> humidity,
     light |-> 100, pir |-> pir, building_id |-> 413, energy_kwh |-> energy]

\* The rows of the model: a first reading with no sensor value, a reading
\* inside every optimal band at each time, a last reading outside every
\* band, and a reading whose date is malformed.
RowSet ==
    { Row(1, NULL, NULL, NULL, NULL, NULL),
      Row(MaxTime, 1200, 27, 65, 0, 1200),
      Row(BadDate, 500, 23, 50, 1, 400) }
      \cup { Row(t, 500, 23, 50, 1, 400) : t \in Times }

RowSeqs == UNION { [1..n -> RowSet] : n \in 0..MaxRows }

\* The file on disk: absent, not a CSV table, or a table.
NoTable == [state |-> "missing", cols |-> {}, rows |-> <<>>]
Unparsable == [state |-> "unparsable", cols |-> {}, rows |-> <<>>]
Tables == [state : {"ok"}, cols : ColSets, rows : RowSeqs]
Files == {NoTable, Unparsable} \cup Tables

\* What the environment may put in place of the file while the server runs.
ReplacementFiles ==
    { NoTable,
      [state |-> "ok", cols |-> FullCols,
       rows |-> <<Row(1, 500, 23, 50, 1, 400)>>] }

\* pd.DataFrame(): no column, no row.
EmptyFrame == [cols |-> {}, rows |-> <<>>, numeric |-> {}]

\* pd.read_csv of a table: a column is numeric when it holds numbers; in a
\* file with a header and no row every column is of dtype object.
read_csv(f) ==
    [cols |-> f.cols, rows |-> f.rows,
     numeric |-> IF f.rows = <<>> THEN {} ELSE f.cols \cap NumericCols]

\* DataFrame.empty
IsEmpty(df) == df.cols = {} \/ df.rows = <<>>

\* The cell of row r in column c.
Cell(r, c) == IF c \in {"datetime", "timestamp"} THEN r.t ELSE r[c]

\* Series.dropna() of column c.
RECURSIVE Present(_, _)
Present(rows, c) ==
    IF rows = <<>> THEN <<>>
    ELSE IF Cell(Head(rows), c) = NULL THEN Present(Tail(rows), c)
    ELSE <<Cell(Head(rows), c)>> \o Present(Tail(rows), c)

RECURSIVE SumSeq(_)
SumSeq(s) == IF s = <<>> THEN 0 ELSE Head(s) + SumSeq(Tail(s))

RECURSIVE MaxSeq(_)
MaxSeq(s) ==
    IF Len(s) = 1 THEN s[1]
    ELSE LET m == MaxSeq(Tail(s)) IN IF Head(s) >= m THEN Head(s) ELSE m

RECURSIVE MinSeq(_)
MinSeq(s) ==
    IF Len(s) = 1 THEN s[1]
    ELSE LET m == MinSeq(Tail(s)) IN IF Head(s) <= m THEN Head(s) ELSE m

\* A float: NaN, or the exact fraction num/den.
NaN == [nan |-> TRUE, num |-> 0, den |-> 1]
Frac(n, d) == [nan |-> FALSE, num |-> n, den |-> d]
Num(n) == Frac(n, 1)
\* Python's None where a float is expected (JSON null): no denominator.
None == Frac(0, 0)

\* x > k, x < k, x >= k, x <= k for a float x and an integer k: every
\* comparison with NaN is false.
GT(x, k) == ~x.nan /\ x.num > k * x.den
LT(x, k) == ~x.nan /\ x.num < k * x.den
GE(x, k) == ~x.nan /\ x.num >= k * x.den
LE(x, k) == ~x.nan /\ x.num <= k * x.den

\* Series.mean(), .max(), .min() skip absent cells and are NaN without any
\* value; Series.sum() is then 0.
Mean(rows, c) ==
    LET v == Present(rows, c)
    IN  IF v = <<>> THEN NaN ELSE Frac(SumSeq(v), Len(v))
Max(rows, c) ==
    LET v == Present(rows, c) IN IF v = <<>> THEN NaN ELSE Num(MaxSeq(v))
Min(rows, c) ==
    LET v == Present(rows, c) IN IF v = <<>> THEN NaN ELSE Num(MinSeq(v))
Sum(rows, c) == SumSeq(Present(rows, c))

\* df[df[col] >= lo] and df[df[col] <= hi]
RowsFrom(rows, lo) == SelectSeq(rows, LAMBDA r : r.t >= lo)
RowsUpTo(rows, hi) == SelectSeq(rows, LAMBDA r : r.t <= hi)

\* Whether pd.to_datetime raises on the time column.
HasBadDate(rows) == \E i \in 1..Len(rows) : rows[i].t = BadDate

\* DataFrame.sort_values('datetime'): insertion of each row after the rows
\* that are not later.
RECURSIVE SortRows(_)
SortRows(rows) ==
    IF rows = <<>> THEN <<>>
    ELSE LET last == rows[Len(rows)]
             rest == SortRows(SubSeq(rows, 1, Len(rows) - 1))
         IN  SelectSeq(rest, LAMBDA r : r.t <= last.t) \o <<last>>
               \o SelectSeq(rest, LAMBDA r : r.t > last.t)

\* What a tool returns: text (a message), the JSON text of a dictionary, or
\* an exception that leaves the tool.
NoData == [none |-> TRUE]
Text(message) == [kind |-> "text", text |-> message, data |-> NoData]
Json(d) == [kind |-> "json", text |-> "", data |-> d]
Raise(exception) == [kind |-> "raise", text |-> exception, data |-> NoData]

---------------------------------------------------------------------------
(* backend/mcp_server.py: the dataset cache and the three metric tools.     *)
(* A tool is an operator from the cache, the file and its arguments to the  *)
(* cache it leaves and the result it returns.                               *)

\* _DATASET_CACHE = None
NoCache == [loaded |-> FALSE, frame |-> EmptyFrame]

\* Mutant of get_dataset: the file is read at every call.
get_dataset_AlwaysReload(c, f) ==
    IF f.state # "ok"
    THEN [cache |-> c, raised |-> TRUE, df |-> EmptyFrame]
    ELSE [cache |-> [loaded |-> TRUE, frame |-> read_csv(f)],
          raised |-> FALSE, df |-> read_csv(f)]

\* get_dataset(): read the file when nothing is cached, return a copy.  The
\* exception of pd.read_csv leaves the cache as it was.
get_dataset(c, f) ==
    IF c.loaded
    THEN [cache |-> c, raised |-> FALSE, df |-> c.frame]
    ELSE IF f.state # "ok"
         THEN [cache |-> c, raised |-> TRUE, df |-> EmptyFrame]
         ELSE [cache |-> [loaded |-> TRUE, frame |-> read_csv(f)],
               raised |-> FALSE, df |-> read_csv(f)]

\* The rows get_building_energy_stats keeps: the date range applies only to
\* a column named timestamp (mcp_server.py:43-49).
StatsRows(df, start_date, end_date) ==
    IF "timestamp" \in df.cols
    THEN LET lo == IF start_date # NoDate
                   THEN RowsFrom(df.rows, start_date) ELSE df.rows
         IN  IF end_date # NoDate THEN RowsUpTo(lo, end_date) ELSE lo
    ELSE df.rows

\* The dictionary get_building_energy_stats dumps (mcp_server.py:62-87).
EnergyStats(df, rows) ==
    [total |-> Len(rows),
     monitored |-> df.cols,
     mean |-> [col \in df.numeric |-> Mean(rows, col)],
     max |-> [col \in df.numeric |-> Max(rows, col)],
     min |-> [col \in df.numeric |-> Min(rows, col)],
     \* str(df['datetime'].min()), or the "not available" text
     span |-> IF "datetime" \in df.cols
              THEN [available |-> TRUE,
                    from |-> Min(rows, "datetime"), to |-> Max(rows, "datetime")]
              ELSE [available |-> FALSE, from |-> NaN, to |-> NaN]]

get_building_energy_stats(c, f, start_date, end_date) ==
    LET g == get_dataset(c, f)
        df == g.df
        raises ==
            \/ g.raised
            \/ /\ "timestamp" \in df.cols
               /\ \/ HasBadDate(df.rows)
                  \/ start_date = BadDate
                  \/ end_date = BadDate
    IN  [cache |-> g.cache,
         result |-> IF raises
                    THEN Text("error reading building data")
                    ELSE Json(EnergyStats(df, StatsRows(df, start_date, end_date)))]

\* The recommendations of get_sustainability_metrics when an energy or
\* power column exists (mcp_server.py:117-122).
EnergyRecommendations(avg_energy) ==
    (IF GT(avg_energy, 1000) THEN <<"high energy consumption">> ELSE <<>>)
      \o (IF GT(avg_energy, 500)
          THEN <<"monitor peak hours">>
          ELSE <<"energy within normal ranges">>)

\* Mutant of EnvironmentRecommendations: only the upper band of each
\* average gives a note.
EnvironmentRecommendations_UpperBandsOnly(co2_avg, temp_avg, humidity_avg) ==
    LET bands ==
            (IF GT(co2_avg, 1000) THEN <<"co2 high">> ELSE <<>>)
              \o (IF GT(temp_avg, 25) THEN <<"temperature high">> ELSE <<>>)
              \o (IF GT(humidity_avg, 60) THEN <<"humidity high">> ELSE <<>>)
    IN  IF bands = <<>> THEN <<"conditions optimal">> ELSE bands

\* The recommendations from the environmental averages
\* (mcp_server.py:143-159).
EnvironmentRecommendations(co2_avg, temp_avg, humidity_avg) ==
    LET bands ==
            (IF GT(co2_avg, 1000) THEN <<"co2 high">>
             ELSE IF GT(co2_avg, 600) THEN <<"monitor co2">> ELSE <<>>)
              \o (IF GT(temp_avg, 25) THEN <<"temperature high">>
                  ELSE IF LT(temp_avg, 22) THEN <<"temperature low">> ELSE <<>>)
              \o (IF GT(humidity_avg, 60) THEN <<"humidity high">>
                  ELSE IF LT(humidity_avg, 40) THEN <<"humidity low">> ELSE <<>>)
    IN  IF bands = <<>> THEN <<"conditions optimal">> ELSE bands

\* df[col].mean() if col in df.columns else 0
MeanOrZero(df, col) == IF col \in df.cols THEN Mean(df.rows, col) ELSE Num(0)

energy_columns(df) == df.cols \cap {"energy_kwh"}

get_sustainability_metrics(c, f) ==
    LET g == get_dataset(c, f)
        df == g.df
        \* df['pir'].sum() / len(df): the sum of a column without rows is the
        \* integer 0, and 0 / 0 raises ZeroDivisionError
        raises == g.raised
                    \/ (energy_columns(df) = {} /\ "pir" \in df.cols /\ df.rows = <<>>)
        metrics ==
            IF energy_columns(df) # {}
            THEN [energy |-> TRUE,
                  total_energy |-> Num(Sum(df.rows, "energy_kwh")),
                  avg_energy |-> Mean(df.rows, "energy_kwh"),
                  co2 |-> NaN, temperature |-> NaN, humidity |-> NaN,
                  readings |-> Len(df.rows),
                  recommendations |->
                      EnergyRecommendations(Mean(df.rows, "energy_kwh"))]
            ELSE [energy |-> FALSE,
                  total_energy |-> NaN,
                  avg_energy |-> NaN,
                  co2 |-> MeanOrZero(df, "co2"),
                  temperature |-> MeanOrZero(df, "temperature"),
                  humidity |-> MeanOrZero(df, "humidity"),
                  readings |-> Len(df.rows),
                  recommendations |->
                      EnvironmentRecommendations(MeanOrZero(df, "co2"),
                          MeanOrZero(df, "temperature"), MeanOrZero(df, "humidity"))]
    IN  [cache |-> g.cache,
         result |-> IF raises
                    THEN Text("error computing sustainability metrics")
                    ELSE Json(metrics)]

\* The rating and the recommendations of the carbon footprint
\* (mcp_server.py:191-225).
CarbonRating(avg_co2) ==
    IF LT(avg_co2, 600) THEN "excellent"
    ELSE IF LT(avg_co2, 1000) THEN "needs improvement"
    ELSE "poor"

CarbonRecommendations(avg_co2) ==
    IF GT(avg_co2, 1000)
    THEN <<"improve ventilation now", "renewable energy", "monitor occupancy">>
    ELSE IF GT(avg_co2, 600)
         THEN <<"monitor co2 at peak hours", "improve ventilation schedules">>
         ELSE <<"maintain current standards">>

\* The efficiency and the recommendation of the water usage
\* (mcp_server.py:239-262).
HumidityEfficiency(avg_humidity) ==
    IF GE(avg_humidity, 40) /\ LE(avg_humidity, 60) THEN "good"
    ELSE "needs improvement"

WaterRecommendations(avg_humidity) ==
    IF GT(avg_humidity, 60) THEN <<"high humidity">>
    ELSE IF LT(avg_humidity, 40) THEN <<"low humidity">>
    ELSE <<"humidity ideal">>

\* x * n for a float x and an integer n.
Scale(x, n) == IF x.nan THEN NaN ELSE Frac(x.num * n, x.den)

analyze_eco_impact(c, f, metric_type) ==
    LET g == get_dataset(c, f)
        df == g.df
        avg_co2 == Mean(df.rows, "co2")
        avg_humidity == Mean(df.rows, "humidity")
        carbon ==
            [metric |-> "carbon_footprint",
             \* avg_co2 * len(df) * 0.001, kept in thousandths of a kg
             estimate |-> Scale(avg_co2, Len(df.rows)),
             average |-> avg_co2,
             max |-> Max(df.rows, "co2"),
             min |-> Min(df.rows, "co2"),
             rating |-> CarbonRating(avg_co2),
             readings |-> Len(df.rows),
             recommendations |-> CarbonRecommendations(avg_co2)]
        water ==
            [metric |-> "water_usage",
             \* (avg_humidity / 50) * total_motion_events * 10, kept in
             \* fifths of a litre
             estimate |-> Scale(avg_humidity, Sum(df.rows, "pir")),
             average |-> avg_humidity,
             max |-> NaN,
             min |-> NaN,
             rating |-> HumidityEfficiency(avg_humidity),
             readings |-> Len(df.rows),
             recommendations |-> WaterRecommendations(avg_humidity)]
    IN  [cache |-> g.cache,
         result |->
             IF g.raised THEN Text("error analysing eco impact")
             ELSE IF metric_type = "carbon_footprint" /\ "co2" \in df.cols
                  THEN Json(carbon)
             ELSE IF metric_type = "water_usage"
                       /\ "humidity" \in df.cols /\ "pir" \in df.cols
                  THEN Json(water)
             ELSE Text("analysis completed with available data")]

---------------------------------------------------------------------------
(* mcp-service/src/server.py: the loader and the five tools.  A tool is an  *)
(* operator from the loaded frame to its result; the loader runs first.     *)

\* building_data = None, data_loaded = False
NotLoaded == EmptyFrame

\* load_dataset(): nothing when data_loaded; otherwise read the file, parse
\* and sort by datetime; any exception leaves an empty frame and
\* data_loaded False.
load_dataset(bd, loaded, f) ==
    IF loaded THEN [building_data |-> bd, data_loaded |-> TRUE]
    ELSE IF \/ f.state # "ok"
            \/ "datetime" \notin f.cols
            \/ HasBadDate(f.rows)
         THEN [building_data |-> EmptyFrame, data_loaded |-> FALSE]
         ELSE [building_data |->
                   [cols |-> f.cols, rows |-> SortRows(f.rows),
                    numeric |-> read_csv(f).numeric],
               data_loaded |-> TRUE]

\* Whether df[col] raises KeyError for one of the columns.
MissingColumn(df, columns) == ~(columns \subseteq df.cols)

\* One sensor's entry of get_data_summary (server.py:58-81): the statistics
\* are None when the column holds no value.
SensorSummary(df, col) ==
    LET any == Present(df.rows, col) # <<>>
    IN  [available_records |-> Len(Present(df.rows, col)),
         avg_value |-> IF any THEN Mean(df.rows, col) ELSE None,
         min_value |-> IF any THEN Min(df.rows, col) ELSE None,
         max_value |-> IF any THEN Max(df.rows, col) ELSE None]

get_data_summary(df) ==
    IF IsEmpty(df) THEN Text("No data available")
    ELSE IF MissingColumn(df, SensorCols \cup {"building_id"})
         THEN Raise("KeyError")
    ELSE Json([total_records |-> Len(df.rows),
               date_range |-> [start |-> Min(df.rows, "datetime"),
                               end |-> Max(df.rows, "datetime")],
               building_id |-> df.rows[1].building_id,
               sensors |-> [col \in SensorCols \ {"pir"} |-> SensorSummary(df, col)],
               pir_motion |->
                   [available_records |-> Len(Present(df.rows, "pir")),
                    total_motion_events |-> Sum(df.rows, "pir")]])

\* The rows analyze_co2_levels keeps (server.py:104-110).
Co2Rows(df, start_date, end_date) ==
    LET lo == IF start_date # NoDate THEN RowsFrom(df.rows, start_date) ELSE df.rows
    IN  IF end_date # NoDate THEN RowsUpTo(lo, end_date) ELSE lo

\* Mutant of CountIn: the lower limit belongs to the band too.
CountIn_WithLower(s, lo, hi) == Len(SelectSeq(s, LAMBDA v : lo <= v /\ v <= hi))

\* The number of values v of s with v <= hi, lo < v <= hi and v > lo.
CountUpTo(s, hi) == Len(SelectSeq(s, LAMBDA v : v <= hi))
CountIn(s, lo, hi) == Len(SelectSeq(s, LAMBDA v : lo < v /\ v <= hi))
CountAbove(s, lo) == Len(SelectSeq(s, LAMBDA v : v > lo))

\* round(count / total * 100, 1) in tenths of a percent: the nearest tenth,
\* the even one of two equally near.
Percentage(count, total) ==
    LET q == (1000 * count) \div total
        r == (1000 * count) % total
    IN  IF 2 * r > total THEN q + 1
        ELSE IF 2 * r < total THEN q
        ELSE IF q % 2 = 0 THEN q ELSE q + 1

\* max(0, 100 - (co2_data.mean() - 400) / 10)  (server.py:150)
Co2Score(mean) ==
    IF 1400 * mean.den - mean.num < 0 THEN Num(0)
    ELSE Frac(1400 * mean.den - mean.num, 10 * mean.den)

\* overall_rating (server.py:145-148)
Co2Rating(mean) ==
    IF LE(mean, 400) THEN "excellent"
    ELSE IF LE(mean, 600) THEN "good"
    ELSE IF LE(mean, 1000) THEN "acceptable"
    ELSE IF LE(mean, 1500) THEN "poor"
    ELSE "very_poor"

analyze_co2_levels(df, start_date, end_date) ==
    IF IsEmpty(df) THEN Text("No data available")
    \* a datetime column compared with a string that is no date: TypeError
    ELSE IF start_date = BadDate \/ end_date = BadDate THEN Raise("TypeError")
    ELSE IF MissingColumn(df, {"co2"}) THEN Raise("KeyError")
    ELSE LET rows == Co2Rows(df, start_date, end_date)
             co2_data == Present(rows, "co2")
         IN  IF co2_data = <<>>
             THEN Text("No CO2 data available for the specified period")
             ELSE Json([period |-> [start |-> Min(rows, "datetime"),
                                    end |-> Max(rows, "datetime"),
                                    total_readings |-> Len(co2_data)],
                        average_ppm |-> Mean(rows, "co2"),
                        min_ppm |-> Min(rows, "co2"),
                        max_ppm |-> Max(rows, "co2"),
                        distribution |->
                            [excellent |-> CountUpTo(co2_data, 400),
                             good |-> CountIn(co2_data, 400, 600),
                             acceptable |-> CountIn(co2_data, 600, 1000),
                             poor |-> CountIn(co2_data, 1000, 1500),
                             very_poor |-> CountAbove(co2_data, 1500)],
                        percentage |->
                            [excellent |-> Percentage(CountUpTo(co2_data, 400),
                                                      Len(co2_data)),
                             good |-> Percentage(CountIn(co2_data, 400, 600),
                                                 Len(co2_data)),
                             acceptable |-> Percentage(CountIn(co2_data, 600, 1000),
                                                       Len(co2_data)),
                             poor |-> Percentage(CountIn(co2_data, 1000, 1500),
                                                 Len(co2_data)),
                             very_poor |-> Percentage(CountAbove(co2_data, 1500),
                                                      Len(co2_data))],
                        overall_rating |-> Co2Rating(Mean(rows, "co2")),
                        ventilation_needed |-> GT(Mean(rows, "co2"), 1000),
                        energy_efficiency_score |-> Co2Score(Mean(rows, "co2"))])

\* datetime.dt.hour of a time counted in hours.
HourOf(t) == t % 24

\* The key of the greatest value of a dictionary whose keys are in
\* ascending order (groupby sorts them): max(d, key=d.get) returns the first
\* key that reaches the maximum.
PeakKey(d) ==
    CHOOSE k \in DOMAIN d :
        /\ \A j \in DOMAIN d : d[j] <= d[k]
        /\ \A j \in DOMAIN d : d[j] = d[k] => k <= j

\* datetime.dt.day_name() of a time counted in hours from 2024-10-01 00:00,
\* a Tuesday (create_dataset.py:9).
DayNames ==
    <<"Tuesday", "Wednesday", "Thursday", "Friday", "Saturday", "Sunday", "Monday">>
DayOf(t) == DayNames[((t \div 24) % 7) + 1]

\* The order groupby('day_of_week') gives its keys: sorted as strings.
SortedDays ==
    <<"Friday", "Monday", "Saturday", "Sunday", "Thursday", "Tuesday", "Wednesday">>

\* Mutant of PeakDay: the last key that reaches the maximum.
PeakDay_LastOfTies(d) ==
    LET i == CHOOSE i \in 1..7 :
                 /\ SortedDays[i] \in DOMAIN d
                 /\ \A j \in 1..7 : SortedDays[j] \in DOMAIN d
                        => d[SortedDays[j]] <= d[SortedDays[i]]
                 /\ \A j \in 1..7 :
                        (SortedDays[j] \in DOMAIN d
                           /\ d[SortedDays[j]] = d[SortedDays[i]]) => j <= i
    IN  SortedDays[i]

\* max(daily_activity, key=daily_activity.get): the first key, in the
\* order of the dictionary, that reaches the maximum (server.py:179).
PeakDay(d) ==
    LET i == CHOOSE i \in 1..7 :
                 /\ SortedDays[i] \in DOMAIN d
                 /\ \A j \in 1..7 : SortedDays[j] \in DOMAIN d
                        => d[SortedDays[j]] <= d[SortedDays[i]]
                 /\ \A j \in 1..7 :
                        (SortedDays[j] \in DOMAIN d
                           /\ d[SortedDays[j]] = d[SortedDays[i]]) => i <= j
    IN  SortedDays[i]

analyze_occupancy_patterns(df) ==
    IF IsEmpty(df) THEN Text("No data available")
    ELSE IF MissingColumn(df, {"pir"}) THEN Raise("KeyError")
    ELSE LET pir_data == SelectSeq(df.rows, LAMBDA r : r.pir # NULL)
             hours == {HourOf(pir_data[i].t) : i \in 1..Len(pir_data)}
             hourly_activity ==
                 [h \in hours |->
                     Sum(SelectSeq(pir_data, LAMBDA r : HourOf(r.t) = h), "pir")]
             days == {DayOf(pir_data[i].t) : i \in 1..Len(pir_data)}
             daily_activity ==
                 [d \in days |->
                     Sum(SelectSeq(pir_data, LAMBDA r : DayOf(r.t) = d), "pir")]
         IN  IF pir_data = <<>>
             THEN Text("No motion sensor data available")
             ELSE Json([total_motion_events |-> Sum(pir_data, "pir"),
                        monitoring_period |->
                            [start |-> Min(pir_data, "datetime"),
                             end |-> Max(pir_data, "datetime")],
                        peak_activity_hour |-> PeakKey(hourly_activity),
                        peak_activity_day |-> PeakDay(daily_activity),
                        hourly_pattern |-> hourly_activity,
                        daily_pattern |-> daily_activity,
                        recommendations |->
                            <<"Reduce HVAC during low occupancy hours",
                              "Optimize lighting schedules based on motion patterns",
                              "Consider automated systems for peak usage times">>])

\* 20 <= temperature <= 24 and 40 <= humidity <= 60
OptimalTemperature(v) == 20 <= v /\ v <= 24
OptimalHumidity(v) == 40 <= v /\ v <= 60

\* Mutant of ComfortScore: the bonus is added without the cap.
ComfortScore_Uncapped(comfort_count, combined) ==
    Frac(100 * comfort_count + 20 * combined, combined)

\* min(100, comfort_count / len(combined_data) * 100 + 20)  (server.py:271)
ComfortScore(comfort_count, combined) ==
    IF 100 * comfort_count + 20 * combined > 100 * combined
    THEN Num(100)
    ELSE Frac(100 * comfort_count + 20 * combined, combined)

get_environmental_comfort_analysis(df) ==
    IF IsEmpty(df) THEN Text("No data available")
    ELSE IF MissingColumn(df, {"temperature", "humidity"}) THEN Raise("KeyError")
    ELSE LET temp_data == Present(df.rows, "temperature")
             humidity_data == Present(df.rows, "humidity")
             combined_data ==
                 SelectSeq(df.rows,
                           LAMBDA r : r.temperature # NULL /\ r.humidity # NULL)
             comfort_count ==
                 Len(SelectSeq(combined_data,
                               LAMBDA r : OptimalTemperature(r.temperature)
                                            /\ OptimalHumidity(r.humidity)))
         IN  IF temp_data = <<>> /\ humidity_data = <<>>
             THEN Text("No temperature or humidity data available")
             ELSE Json([temperature_optimal |->
                            Len(SelectSeq(temp_data, OptimalTemperature)),
                        temperature_readings |-> Len(temp_data),
                        humidity_optimal |->
                            Len(SelectSeq(humidity_data, OptimalHumidity)),
                        humidity_readings |-> Len(humidity_data),
                        has_comfort_insights |-> combined_data # <<>>,
                        comfort_count |-> comfort_count,
                        combined_readings |-> Len(combined_data),
                        percentage |->
                            IF combined_data # <<>>
                            THEN Percentage(comfort_count, Len(combined_data))
                            ELSE 0,
                        energy_efficiency_score |->
                            IF combined_data # <<>>
                            THEN ComfortScore(comfort_count, Len(combined_data))
                            ELSE None,
                        recommendations |->
                            IF combined_data # <<>>
                            THEN <<"Maintain temperature between 20-24C",
                                   "Keep humidity between 40-60%",
                                   "Use smart thermostats">>
                            ELSE <<>>])

\* json.loads of what a tool returned: a plain message is no JSON.
JsonLoadsRaises(result) == result.kind # "json"

\* round(x, 1) of the float n/d in tenths: the nearest tenth, the even one
\* of two equally near.
RoundTenths(n, d) ==
    LET q == (10 * n) \div d
        r == (10 * n) % d
    IN  IF 2 * r > d THEN q + 1
        ELSE IF 2 * r < d THEN q
        ELSE IF q % 2 = 0 THEN q ELSE q + 1

\* insights.get("energy_efficiency_score", 50) of a dictionary that holds
\* the score or is empty.
ScoreOr50(has_score, score) == IF has_score THEN score ELSE Num(50)

\* round(np.mean(scores), 1) if scores else 50, in tenths
\* (server.py:322-328); scores holds one or two floats.
OverallScore(scores) ==
    IF scores = <<>> THEN 500
    ELSE IF Len(scores) = 1 THEN RoundTenths(scores[1].num, scores[1].den)
    ELSE RoundTenths(scores[1].num * scores[2].den + scores[2].num * scores[1].den,
                     2 * scores[1].den * scores[2].den)

generate_sustainability_report(df) ==
    LET co2_analysis == analyze_co2_levels(df, NoDate, NoDate)
        occupancy_analysis == analyze_occupancy_patterns(df)
        comfort_analysis == get_environmental_comfort_analysis(df)
        data_summary == get_data_summary(df)
        parts == <<co2_analysis, occupancy_analysis, comfort_analysis, data_summary>>
        recommendations ==
            (IF co2_analysis.data.ventilation_needed
             THEN <<"Improve ventilation system to reduce CO2 levels">> ELSE <<>>)
              \o occupancy_analysis.data.recommendations
              \o comfort_analysis.data.recommendations
        \* both dictionaries always hold their insights key: the comfort one
        \* may be empty (server.py:221-225, 323-326)
        scores ==
            <<co2_analysis.data.energy_efficiency_score,
              ScoreOr50(comfort_analysis.data.has_comfort_insights,
                        comfort_analysis.data.energy_efficiency_score)>>
        \* the first sub-analysis, in the order called, that is no JSON text
        bad == {i \in 1..4 : parts[i].kind # "json"}
        first == CHOOSE i \in bad : \A j \in bad : i <= j
    IN  IF IsEmpty(df) THEN Text("No data available for report generation")
        ELSE IF bad # {}
             THEN IF parts[first].kind = "raise"
                  THEN Raise(parts[first].text)
                  ELSE Raise("JSONDecodeError")
        ELSE Json([total_records_analyzed |-> data_summary.data.total_records,
                   building_id |-> data_summary.data.building_id,
                   overall_sustainability_score |-> OverallScore(scores),
                   air_quality |-> co2_analysis.data,
                   occupancy_patterns |-> occupancy_analysis.data,
                   environmental_comfort |-> comfort_analysis.data,
                   recommendations |-> recommendations,
                   priority_recommendations |->
                       SubSeq(recommendations, 1,
                              IF Len(recommendations) < 3
                              THEN Len(recommendations) ELSE 3)])

---------------------------------------------------------------------------
(* Messages. *)

\* The words of a message, separated by one blank.
RECURSIVE JoinWords(_)
JoinWords(ws) ==
    IF Len(ws) = 1 THEN Vocabulary[ws[1]]
    ELSE Vocabulary[ws[1]] \o <<" ">> \o JoinWords(Tail(ws))

\* The "message" fields of the model: none or empty, one blank, and every
\* sequence of 1..MaxWords words.
Messages ==
    {<<>>, <<" ">>}
      \cup { JoinWords(ws) :
               ws \in UNION { [1..n -> 1..Len(Vocabulary)] : n \in 1..MaxWords } }

---------------------------------------------------------------------------
(* frontend/flask_app_simple.py: the keyword router and /chat. *)

\* Mutant of Route: the water group is tested before the carbon group.
Route_WaterFirst(user_message) ==
    IF AnyKeyword(user_message, energy_keywords)
    THEN [tool_name |-> "get_building_energy_stats", metric_type |-> "None"]
    ELSE IF AnyKeyword(user_message, sustainability_group_keywords)
    THEN [tool_name |-> "get_sustainability_metrics", metric_type |-> "None"]
    ELSE IF AnyKeyword(user_message, water_keywords)
    THEN [tool_name |-> "analyze_eco_impact", metric_type |-> "water_usage"]
    ELSE IF AnyKeyword(user_message, carbon_keywords)
    THEN [tool_name |-> "analyze_eco_impact", metric_type |-> "carbon_footprint"]
    ELSE IF AnyKeyword(user_message, environment_keywords)
    THEN [tool_name |-> "get_building_energy_stats", metric_type |-> "None"]
    ELSE [tool_name |-> "None", metric_type |-> "None"]

\* Mutant of Route: a message without keyword is routed to the statistics.
Route_DefaultTool(user_message) ==
    IF AnyKeyword(user_message, energy_keywords)
    THEN [tool_name |-> "get_building_energy_stats", metric_type |-> "None"]
    ELSE IF AnyKeyword(user_message, sustainability_group_keywords)
    THEN [tool_name |-> "get_sustainability_metrics", metric_type |-> "None"]
    ELSE IF AnyKeyword(user_message, carbon_keywords)
    THEN [tool_name |-> "analyze_eco_impact", metric_type |-> "carbon_footprint"]
    ELSE IF AnyKeyword(user_message, water_keywords)
    THEN [tool_name |-> "analyze_eco_impact", metric_type |-> "water_usage"]
    ELSE [tool_name |-> "get_building_energy_stats", metric_type |-> "None"]

\* The tool and parameters chosen for the lower-cased message
\* (flask_app_simple.py:566-582); tool_name "None" when no keyword occurs.
Route(user_message) ==
    IF AnyKeyword(user_message, energy_keywords)
    THEN [tool_name |-> "get_building_energy_stats", metric_type |-> "None"]
    ELSE IF AnyKeyword(user_message, sustainability_group_keywords)
    THEN [tool_name |-> "get_sustainability_metrics", metric_type |-> "None"]
    ELSE IF AnyKeyword(user_message, carbon_keywords)
    THEN [tool_name |-> "analyze_eco_impact", metric_type |-> "carbon_footprint"]
    ELSE IF AnyKeyword(user_message, water_keywords)
    THEN [tool_name |-> "analyze_eco_impact", metric_type |-> "water_usage"]
    ELSE IF AnyKeyword(user_message, environment_keywords)
    THEN [tool_name |-> "get_building_energy_stats", metric_type |-> "None"]
    ELSE [tool_name |-> "None", metric_type |-> "None"]

\* One invocation of a tool or of a service, as recorded in calls.
Call(target, name, argument) ==
    [target |-> target, name |-> name, argument |-> argument]

\* The direct call of the routed tool (flask_app_simple.py:586-591):
\* parameters.get("metric_type", "carbon_footprint") for analyze_eco_impact.
CallRoutedTool(route, c, f) ==
    LET metric_type == IF route.metric_type = "None"
                       THEN "carbon_footprint" ELSE route.metric_type
    IN  IF route.tool_name = "get_building_energy_stats"
        THEN [call |-> Call("tool", "get_building_energy_stats", "None"),
              done |-> get_building_energy_stats(c, f, NoDate, NoDate)]
        ELSE IF route.tool_name = "get_sustainability_metrics"
        THEN [call |-> Call("tool", "get_sustainability_metrics", "None"),
              done |-> get_sustainability_metrics(c, f)]
        ELSE [call |-> Call("tool", "analyze_eco_impact", metric_type),
              done |-> analyze_eco_impact(c, f, metric_type)]

\* A response: the HTTP status, the source (or type) label, and what the
\* body is.
Response(status, source, body) ==
    [status |-> status, source |-> source, body |-> body]
NoResponse == Response(0, "None", "None")

\* The body made of a tool result (flask_app_simple.py:595-612): the report
\* formatted from the dictionary, or the result as it is when it is no
\* dictionary.
Rendered(result) == IF result.kind = "json" THEN "report" ELSE result.text

\* The keys of the dictionary a backend tool dumps (mcp_server.py:75-87,
\* 111-141, 208-218, 246-255), each Arabic key under an English name.
EmittedKeys(tool_name, data) ==
    IF tool_name = "get_building_energy_stats"
    THEN {"total_readings", "monitored_parameters", "energy_statistics", "data_period"}
    ELSE IF tool_name = "get_sustainability_metrics"
    THEN IF data.energy
         THEN {"total_energy", "avg_energy", "recommendations"}
         ELSE {"total_energy", "avg_energy", "co2_levels", "temperature_avg",
               "humidity_avg", "light_avg", "pir_activity", "readings",
               "recommendations"}
    ELSE IF data.metric = "carbon_footprint"
    THEN {"metric", "co2_emissions", "daily_co2", "max_co2", "min_co2", "rating",
          "rating_desc", "readings", "recommendations"}
    ELSE {"metric", "daily_usage", "humidity_efficiency", "efficiency_desc",
          "humidity_avg", "occupancy", "readings", "recommendations"}

\* The Arabic keys generate_energy_report, generate_sustainability_report
\* and generate_impact_report look up in the dictionary
\* (flask_app_simple.py:22-24, 62, 151-157, 288-290, 325-329, 404-407).
ReadKeys(tool_name, metric_type) ==
    IF tool_name = "get_building_energy_stats"
    THEN {"total_readings", "monitored_parameters", "data_period", "energy_statistics"}
    ELSE IF tool_name = "get_sustainability_metrics"
    THEN {"co2_levels", "temperature_avg", "humidity_avg", "light_avg",
          "pir_activity", "readings", "recommendations"}
    ELSE IF metric_type = "carbon_footprint"
    THEN {"metric", "recommendations", "readings", "rating", "co2_emissions",
          "daily_co2", "max_co2", "min_co2"}
    ELSE {"metric", "recommendations", "readings", "daily_usage",
          "humidity_efficiency", "occupancy", "humidity_avg"}

Clock == 1..MaxClock

\* No report has been rendered.
NoPage ==
    [formatter |-> "None", metric_type |-> "None", input |-> Text("None"),
     created |-> 0, shown |-> {}, absent |-> {}]

\* chat(), flask_app_simple.py:595-612: the report the formatter of the
\* tool renders from a dictionary: the values of the keys it reads, those
\* it does not find, and the creation time it takes from
\* datetime.now(); a result that is no dictionary is not formatted and the
\* last report stays.
FormatReport(tool_name, metric_type, result, now, last) ==
    IF result.kind # "json" THEN last
    ELSE [formatter |-> tool_name,
          metric_type |-> metric_type,
          input |-> result,
          created |-> now,
          shown |-> ReadKeys(tool_name, metric_type)
                      \cap EmittedKeys(tool_name, result.data),
          absent |-> ReadKeys(tool_name, metric_type)
                       \ EmittedKeys(tool_name, result.data)]

\* Mutant of SimpleChat: the router runs before the help keywords are tested.
SimpleChat_RouteFirst(message, c, f) ==
    LET user_message == Lower(Strip(message))
        route == Route(user_message)
        routed == CallRoutedTool(route, c, f)
    IN  IF user_message = <<>>
        THEN [resp |-> Response(400, "None", "Message is required"),
              calls |-> <<>>, cache |-> c, result |-> Text("None")]
        ELSE IF route.tool_name # "None"
        THEN [resp |-> IF routed.done.result.kind = "raise"
                       THEN Response(500, "error", "error")
                       ELSE Response(200, "mcp_direct", Rendered(routed.done.result)),
              calls |-> <<routed.call>>, cache |-> routed.done.cache,
              result |-> routed.done.result]
        ELSE IF AnyKeyword(user_message, help_keywords)
        THEN [resp |-> Response(200, "local", "building information"),
              calls |-> <<>>, cache |-> c, result |-> Text("None")]
        ELSE [resp |-> Response(200, "local", "could not understand"),
              calls |-> <<>>, cache |-> c, result |-> Text("None")]

\* chat() of flask_app_simple.py, whole: the response, the calls made and
\* the dataset cache left.  The rendering of a tool result as a report
\* (lines 595-612) changes neither the status nor the source.
SimpleChat(message, c, f) ==
    LET user_message == Lower(Strip(message))
        route == Route(user_message)
        routed == CallRoutedTool(route, c, f)
    IN  IF user_message = <<>>
        THEN [resp |-> Response(400, "None", "Message is required"),
              calls |-> <<>>, cache |-> c, result |-> Text("None")]
        ELSE IF AnyKeyword(user_message, help_keywords)
        THEN [resp |-> Response(200, "local", "building information"),
              calls |-> <<>>, cache |-> c, result |-> Text("None")]
        ELSE IF route.tool_name # "None"
        THEN [resp |-> IF routed.done.result.kind = "raise"
                       THEN Response(500, "error", "error")
                       ELSE Response(200, "mcp_direct", Rendered(routed.done.result)),
              calls |-> <<routed.call>>, cache |-> routed.done.cache,
              result |-> routed.done.result]
        ELSE [resp |-> Response(200, "local", "could not understand"),
              calls |-> <<>>, cache |-> c, result |-> Text("None")]

---------------------------------------------------------------------------
(* The services a handler waits for, and the timeouts it gives them. *)

\* How a service behaves for a request: the agent (mcp-use with its
\* language model and tool server) answers, raises or never replies; an
\* HTTP service answers 200, answers another status, refuses the connection
\* or never replies.
AgentBehaviours == {"ok", "raise", "never"}
HttpBehaviours == {"200", "non200", "raise", "never"}

NoTimeout == 0
\* The timeout, in seconds, a handler passes to a blocking call: the agent
\* is awaited by loop.run_until_complete without one.
CallTimeout(target) ==
    CASE target = "report_service" -> 60
      [] target = "llm" -> 30
      [] target = "llm_report" -> 60
      [] target = "agent" -> NoTimeout
      [] target = "agent_analyze" -> NoTimeout
      [] target = "mcp_tool" -> NoTimeout
      [] target = "mcp_client" -> NoTimeout

\* What the caller of a blocking call sees: a call with a timeout raises when
\* the service never replies, a call without one stays blocked.
Outcome(target, behaviour) ==
    IF behaviour # "never" THEN behaviour
    ELSE IF CallTimeout(target) # NoTimeout THEN "raise" ELSE "blocked"

NoEnv == [agent |-> "None", report |-> "None", llm |-> "None"]

---------------------------------------------------------------------------
(* frontend/flask_app.py: /chat through the agent. *)

\* chat() up to the agent call: the response when there is one, else the
\* call it blocks on.
AgentFrontStart(message) ==
    LET user_message == Strip(message)
    IN  IF user_message = <<>>
        THEN [pc |-> "done", resp |-> Response(400, "None", "Message is required"),
              calls |-> <<>>]
        ELSE IF AnyKeyword(Lower(user_message), help_keywords_agent)
        THEN [pc |-> "done", resp |-> Response(200, "local", "building information"),
              calls |-> <<>>]
        ELSE [pc |-> "wait_agent", resp |-> NoResponse,
              calls |-> <<Call("agent", "run", "message")>>]

\* query_building_data() after agent.run: its result, or the text made of
\* the exception; chat() labels both mcp_agent.
AgentFrontReturn(outcome) ==
    IF outcome = "ok"
    THEN Response(200, "mcp_agent", "agent answer")
    ELSE Response(200, "mcp_agent", "Error connecting to Building 413 data")

---------------------------------------------------------------------------
(* backend/app.py: /chat with the report service. *)

\* chat() up to its first blocking call.
BackendStart(message) ==
    IF message = <<>>
    THEN [pc |-> "done", resp |-> Response(400, "None", "Message is required"),
          calls |-> <<>>]
    ELSE IF AnyKeyword(Lower(message), report_keywords)
    THEN [pc |-> "wait_report", resp |-> NoResponse,
          calls |-> <<Call("report_service", "/report", "message")>>]
    ELSE [pc |-> "wait_llm", resp |-> NoResponse,
          calls |-> <<Call("llm", "generate", "message")>>]

\* Mutant of BackendAfterReport: a failed report service ends the request.
BackendAfterReport_NoFallback(outcome, made) ==
    IF outcome = "200"
    THEN [pc |-> "done", resp |-> Response(200, "report", "llm_analysis"),
          calls |-> made]
    ELSE [pc |-> "done", resp |-> Response(500, "None", "Internal server error"),
          calls |-> made]

\* chat() after requests.post to the report service returned or raised.
BackendAfterReport(outcome, made) ==
    IF outcome = "200"
    THEN [pc |-> "done", resp |-> Response(200, "report", "llm_analysis"),
          calls |-> made]
    ELSE [pc |-> "wait_llm", resp |-> NoResponse,
          calls |-> Append(made, Call("llm", "generate", "message"))]

\* chat() after requests.post to the language model returned or raised.
BackendAfterLlm(outcome) ==
    IF outcome = "200" THEN Response(200, "chat", "llm answer")
    ELSE IF outcome = "non200"
    THEN Response(500, "None", "Failed to get response from Ollama")
    ELSE Response(503, "None", "Connection error to Ollama service")

---------------------------------------------------------------------------
(* backend/app_with_mcp.py: /chat with the agent. *)

\* Mutant of McpStart: the message is not validated.
McpStart_NoValidation(message, agent_object) ==
    IF AnyKeyword(Lower(message), sustainability_keywords)
         /\ agent_object # "None"
    THEN [pc |-> "wait_agent", resp |-> NoResponse,
          calls |-> <<Call("agent", "query", "message")>>]
    ELSE [pc |-> "wait_llm", resp |-> NoResponse,
          calls |-> <<Call("llm", "generate", "message")>>]

\* chat() up to its first blocking call; agent is mcp_client.agent.
McpStart(message, agent_object) ==
    IF message = <<>>
    THEN [pc |-> "done", resp |-> Response(400, "None", "Message is required"),
          calls |-> <<>>]
    ELSE IF AnyKeyword(Lower(message), sustainability_keywords)
              /\ agent_object # "None"
    THEN [pc |-> "wait_agent", resp |-> NoResponse,
          calls |-> <<Call("agent", "query", "message")>>]
    ELSE [pc |-> "wait_llm", resp |-> NoResponse,
          calls |-> <<Call("llm", "generate", "message")>>]

\* Mutant of McpAfterAgent: a failed agent call ends the request with 500.
McpAfterAgent_NoFallback(outcome, made) ==
    IF outcome = "ok"
    THEN [pc |-> "done", resp |-> Response(200, "mcp_enabled", "agent answer"),
          calls |-> made]
    ELSE [pc |-> "done", resp |-> Response(500, "None", "Internal server error"),
          calls |-> made]

\* chat() after mcp_client.query returned or raised: the agent's answer
\* ("mcp_enabled": True), or the fall-through to the plain language-model
\* call ("mcp_enabled": False).
McpAfterAgent(outcome, made) ==
    IF outcome = "ok"
    THEN [pc |-> "done", resp |-> Response(200, "mcp_enabled", "agent answer"),
          calls |-> made]
    ELSE [pc |-> "wait_llm", resp |-> NoResponse,
          calls |-> Append(made, Call("llm", "generate", "message"))]

\* chat() after requests.post to the language model returned or raised.
McpAfterLlm(outcome) ==
    IF outcome = "200" THEN Response(200, "mcp_disabled", "llm answer")
    ELSE IF outcome = "non200"
    THEN Response(500, "None", "Failed to get response from Ollama")
    ELSE Response(500, "None", "Internal server error")


---------------------------------------------------------------------------
(* backend/app_with_mcp.py: /analyze. *)

\* A value of a date field of the request: absent (None or "") or given.
DateFields == {"None", "2024-01-01"}

\* The body of a POST /analyze: its type ('general' when absent) and its six
\* date fields.
AnalyzeRequest(type, start_date, end_date, p1_start, p1_end, p2_start, p2_end) ==
    <<"/analyze", type, start_date, end_date, p1_start, p1_end, p2_start, p2_end>>

AnalyzeTypes == {"period", "recommendations", "compare", "general", "trend"}

AnalyzeRequests ==
    { AnalyzeRequest(type, s, e, s1, e1, s2, e2) :
        type \in AnalyzeTypes, s \in DateFields, e \in DateFields,
        s1 \in DateFields, e1 \in DateFields, s2 \in DateFields, e2 \in DateFields }

\* Mutant of AnalyzeStart: the dates of a period are not required.
AnalyzeStart_NoDateCheck(req, agent_object) ==
    LET type == req[2]
        ask(method) == [pc |-> "wait_analyze", resp |-> NoResponse,
                        calls |-> <<Call("agent_analyze", method, "prompt")>>]
    IN  IF agent_object = "None"
        THEN [pc |-> "done", resp |-> Response(503, "None", "MCP client not connected"),
              calls |-> <<>>]
        ELSE IF type = "period" THEN ask("analyze_period")
        ELSE IF type = "recommendations" THEN ask("get_recommendations")
        ELSE IF type = "compare"
        THEN IF \E i \in 5..8 : req[i] = "None"
             THEN [pc |-> "done",
                   resp |-> Response(400, "None", "All period dates required"),
                   calls |-> <<>>]
             ELSE ask("compare_periods")
        ELSE ask("query")

\* analyze() up to its agent call (app_with_mcp.py:107-148).
AnalyzeStart(req, agent_object) ==
    LET type == req[2]
        ask(method) == [pc |-> "wait_analyze", resp |-> NoResponse,
                        calls |-> <<Call("agent_analyze", method, "prompt")>>]
    IN  IF agent_object = "None"
        THEN [pc |-> "done", resp |-> Response(503, "None", "MCP client not connected"),
              calls |-> <<>>]
        ELSE IF type = "period"
        THEN IF req[3] = "None" \/ req[4] = "None"
             THEN [pc |-> "done",
                   resp |-> Response(400, "None", "start_date and end_date required"),
                   calls |-> <<>>]
             ELSE ask("analyze_period")
        ELSE IF type = "recommendations" THEN ask("get_recommendations")
        ELSE IF type = "compare"
        THEN IF \E i \in 5..8 : req[i] = "None"
             THEN [pc |-> "done",
                   resp |-> Response(400, "None", "All period dates required"),
                   calls |-> <<>>]
             ELSE ask("compare_periods")
        ELSE ask("query")

\* analyze() after the agent returned or raised (app_with_mcp.py:150-160).
AnalyzeAfterAgent(outcome, req) ==
    IF outcome = "ok" THEN Response(200, "success", req[2])
    ELSE Response(500, "None", "Analysis failed")

---------------------------------------------------------------------------
(* report-service/app.py: /report. *)

\* generate_report() up to its first blocking call; the request is not
\* validated.  get_mcp_client() stores the new client before it awaits
\* connect(), and returns a stored client as it is (app.py:39-44).
ReportStart(client) ==
    IF client = "None"
    THEN [pc |-> "wait_connect", resp |-> NoResponse, mcp_client |-> "created",
          calls |-> <<Call("mcp_client", "connect", "smart_home_data")>>]
    ELSE [pc |-> "wait_tool", resp |-> NoResponse, mcp_client |-> client,
          calls |-> <<Call("mcp_tool", "generate_sustainability_report",
                           "comprehensive")>>]

\* analyze_sustainability_data() after connect(): the exception of
\* connect() is caught, the method returns None and the request ends with
\* 500; the stored client stays.
ReportAfterConnect(outcome, made, client) ==
    IF outcome = "ok"
    THEN [pc |-> "wait_tool", resp |-> NoResponse, mcp_client |-> "connected",
          calls |-> Append(made, Call("mcp_tool", "generate_sustainability_report",
                                      "comprehensive"))]
    ELSE [pc |-> "done", mcp_client |-> client,
          resp |-> Response(500, "error", "Failed to analyze building data"),
          calls |-> made]

\* generate_report() after analyze_sustainability_data(): the method catches
\* every exception, that of json.loads on a text that is no JSON included,
\* and returns None, which ends the request with 500.
ReportAfterTool(outcome, made, result) ==
    IF outcome = "ok" /\ result.kind = "json"
    THEN [pc |-> "wait_llm", resp |-> NoResponse,
          calls |-> Append(made, Call("llm_report", "generate", "context"))]
    ELSE [pc |-> "done", resp |-> Response(500, "error", "Failed to analyze building data"),
          calls |-> made]

\* The keys of the two sections of the report the summary reads
\* (server.py:300-311).
ReportMetadataKeys == {"generated_at", "report_type", "building_id", "analysis_period"}
ExecutiveSummaryKeys ==
    {"total_records_analyzed", "overall_sustainability_score", "key_findings",
     "priority_recommendations"}

\* recommendations[:3]
FirstThree(s) == SubSeq(s, 1, IF Len(s) < 3 THEN Len(s) ELSE 3)

NoSummary ==
    [data_points_analyzed |-> 0, sustainability_score |-> 0,
     key_recommendations |-> <<>>]

\* The summary of the /report response (app.py:159-163):
\* data_points_analyzed is looked up in report_metadata and
\* sustainability_score in executive_summary, with the defaults 0 and
\* "N/A" (here -1) for a key the section does not hold.
ReportSummary(data_analysis) ==
    [data_points_analyzed |->
         IF "total_records_analyzed" \in ReportMetadataKeys
         THEN data_analysis.total_records_analyzed ELSE 0,
     sustainability_score |->
         IF "overall_sustainability_score" \in ExecutiveSummaryKeys
         THEN data_analysis.overall_sustainability_score ELSE -1,
     key_recommendations |-> FirstThree(data_analysis.recommendations)]

\* generate_llm_report() after requests.post returned or raised: what it
\* returns as the report.
generate_llm_report(outcome) ==
    IF outcome = "200" THEN "llm report"
    ELSE IF outcome = "non200" THEN "Error generating LLM report"
    ELSE "Error generating report"

\* generate_report() after generate_llm_report(): "status": "success" with the
\* returned text as llm_analysis, status code 200.
ReportAfterLlm(outcome) ==
    Response(200, "success", generate_llm_report(outcome))
---------------------------------------------------------------------------
(* The tool servers: any sequence of tool calls, the file changing on disk  *)
(* in between.                                                              *)

\* No tool call is in progress in any thread.
Threads == 1..MaxThreads
NoThreads == [t \in Threads |-> [pc |-> "idle", raised |-> FALSE, seen |-> EmptyFrame]]

\* No tool has been called yet.
NoCall == [tool |-> "None", start_date |-> NoDate, end_date |-> NoDate,
           metric_type |-> "None", df |-> EmptyFrame, result |-> Text("None")]

DateArguments == {NoDate, BadDate} \cup Times
MetricTypes == {"carbon_footprint", "water_usage", "energy"}

ChatIdle ==
    /\ pc = "idle"
    /\ msg = <<>>
    /\ env = NoEnv
    /\ resp = NoResponse
    /\ calls = <<>>

InitData ==
    /\ proc \in {"backend_tools", "mcp_service"}
    /\ file \in Files
    /\ cache = NoCache
    /\ building_data = NotLoaded
    /\ data_loaded = FALSE
    /\ out = NoCall
    /\ ChatIdle
    /\ threads = NoThreads
    /\ page = NoPage
    /\ mcp_client = "None"
    /\ summary = NoSummary

\* The record of a tool call: its arguments, the frame the accessor gave it
\* and what it returned.
CallRecord(tool, start_date, end_date, metric_type, df, result) ==
    [tool |-> tool, start_date |-> start_date, end_date |-> end_date,
     metric_type |-> metric_type, df |-> df, result |-> result]

BackendTools ==
    {"get_building_energy_stats", "get_sustainability_metrics", "analyze_eco_impact"}
ServiceTools ==
    {"get_data_summary", "analyze_co2_levels", "analyze_occupancy_patterns",
     "get_environmental_comfort_analysis", "generate_sustainability_report"}

\* backend/mcp_server.py tools.
EnergyStatsCall ==
    /\ proc = "backend_tools"
    /\ \E start_date \in DateArguments, end_date \in DateArguments \ {BadDate} :
          LET done == get_building_energy_stats(cache, file, start_date, end_date)
          IN  /\ cache' = done.cache
              /\ out' = CallRecord("get_building_energy_stats", start_date, end_date,
                                   "None", get_dataset(cache, file).df, done.result)
    /\ UNCHANGED <<mcp_client, summary, page, threads, proc, file, building_data, data_loaded, pc, msg, env, resp, calls>>

SustainabilityCall ==
    /\ proc = "backend_tools"
    /\ LET done == get_sustainability_metrics(cache, file)
       IN  /\ cache' = done.cache
           /\ out' = CallRecord("get_sustainability_metrics", NoDate, NoDate, "None",
                                get_dataset(cache, file).df, done.result)
    /\ UNCHANGED <<mcp_client, summary, page, threads, proc, file, building_data, data_loaded, pc, msg, env, resp, calls>>

EcoImpactCall ==
    /\ proc = "backend_tools"
    /\ \E metric_type \in MetricTypes :
          LET done == analyze_eco_impact(cache, file, metric_type)
          IN  /\ cache' = done.cache
              /\ out' = CallRecord("analyze_eco_impact", NoDate, NoDate, metric_type,
                                   get_dataset(cache, file).df, done.result)
    /\ UNCHANGED <<mcp_client, summary, page, threads, proc, file, building_data, data_loaded, pc, msg, env, resp, calls>>

\* mcp-service tools: load_dataset() runs first, then the tool reads
\* building_data.
DataSummaryCall ==
    /\ proc = "mcp_service"
    /\ LET loaded == load_dataset(building_data, data_loaded, file)
       IN  /\ building_data' = loaded.building_data
           /\ data_loaded' = loaded.data_loaded
           /\ out' = CallRecord("get_data_summary", NoDate, NoDate, "None",
                                loaded.building_data,
                                get_data_summary(loaded.building_data))
    /\ UNCHANGED <<mcp_client, summary, page, threads, proc, file, cache, pc, msg, env, resp, calls>>

Co2Call ==
    /\ proc = "mcp_service"
    /\ \E start_date \in DateArguments, end_date \in DateArguments \ {BadDate} :
          LET loaded == load_dataset(building_data, data_loaded, file)
          IN  /\ building_data' = loaded.building_data
              /\ data_loaded' = loaded.data_loaded
              /\ out' = CallRecord("analyze_co2_levels", start_date, end_date, "None",
                                   loaded.building_data,
                                   analyze_co2_levels(loaded.building_data,
                                                      start_date, end_date))
    /\ UNCHANGED <<mcp_client, summary, page, threads, proc, file, cache, pc, msg, env, resp, calls>>

OccupancyCall ==
    /\ proc = "mcp_service"
    /\ LET loaded == load_dataset(building_data, data_loaded, file)
       IN  /\ building_data' = loaded.building_data
           /\ data_loaded' = loaded.data_loaded
           /\ out' = CallRecord("analyze_occupancy_patterns", NoDate, NoDate, "None",
                                loaded.building_data,
                                analyze_occupancy_patterns(loaded.building_data))
    /\ UNCHANGED <<mcp_client, summary, page, threads, proc, file, cache, pc, msg, env, resp, calls>>

ComfortCall ==
    /\ proc = "mcp_service"
    /\ LET loaded == load_dataset(building_data, data_loaded, file)
       IN  /\ building_data' = loaded.building_data
           /\ data_loaded' = loaded.data_loaded
           /\ out' = CallRecord("get_environmental_comfort_analysis", NoDate, NoDate,
                                "None", loaded.building_data,
                                get_environmental_comfort_analysis(loaded.building_data))
    /\ UNCHANGED <<mcp_client, summary, page, threads, proc, file, cache, pc, msg, env, resp, calls>>

ReportCall ==
    /\ proc = "mcp_service"
    /\ LET loaded == load_dataset(building_data, data_loaded, file)
       IN  /\ building_data' = loaded.building_data
           /\ data_loaded' = loaded.data_loaded
           /\ out' = CallRecord("generate_sustainability_report", NoDate, NoDate,
                                "None", loaded.building_data,
                                generate_sustainability_report(loaded.building_data))
    /\ UNCHANGED <<mcp_client, summary, page, threads, proc, file, cache, pc, msg, env, resp, calls>>

\* The file is replaced, removed or created while the server runs.
FileChange ==
    /\ \E f \in ReplacementFiles : f # file /\ file' = f
    /\ UNCHANGED <<mcp_client, summary, page, threads, proc, cache, building_data, data_loaded, out,
                   pc, msg, env, resp, calls>>

NextData ==
    \/ EnergyStatsCall
    \/ SustainabilityCall
    \/ EcoImpactCall
    \/ DataSummaryCall
    \/ Co2Call
    \/ OccupancyCall
    \/ ComfortCall
    \/ ReportCall
    \/ FileChange

SpecData == InitData /\ [][NextData]_vars

\* The tools over files whose readings lie below, on and above the
\* thresholds of the recommendation and rating bands.
BandRows ==
    { Row(1, NULL, NULL, NULL, NULL, NULL),
      Row(1, 400, 23, 50, 1, 400),
      Row(1, 600, 25, 60, 1, 500),
      Row(1, 1000, 21, 30, 0, 1000),
      Row(1, 1200, 27, 65, 0, 1200),
      Row(MaxTime, 1600, 23, 50, 1, 1600) }

BandFiles ==
    [state : {"ok"}, cols : {FullCols, FullCols \cup {"energy_kwh"}},
     rows : UNION { [1..n -> BandRows] : n \in 1..MaxRows }]

InitBands ==
    /\ proc \in {"backend_tools", "mcp_service"}
    /\ file \in BandFiles
    /\ cache = NoCache
    /\ building_data = NotLoaded
    /\ data_loaded = FALSE
    /\ out = NoCall
    /\ ChatIdle
    /\ threads = NoThreads
    /\ page = NoPage
    /\ mcp_client = "None"
    /\ summary = NoSummary

SpecBands == InitBands /\ [][NextData]_vars

\* The analysis service alone, over longer files: a comfortable reading
\* on the first day, an uncomfortable one at the same hour two days later,
\* and a reading an hour after the first with no humidity and high CO2.
ServiceRows ==
    { Row(1, 400, 22, 50, 1, NULL),
      Row(49, 1200, 27, 65, 1, NULL),
      Row(2, 2000, 22, NULL, 1, NULL) }

ServiceFiles ==
    [state : {"ok"}, cols : {FullCols},
     rows : UNION { [1..n -> ServiceRows] : n \in 1..MaxServiceRows }]

InitService ==
    /\ proc = "mcp_service"
    /\ file \in ServiceFiles
    /\ cache = NoCache
    /\ building_data = NotLoaded
    /\ data_loaded = FALSE
    /\ out = NoCall
    /\ ChatIdle
    /\ threads = NoThreads
    /\ page = NoPage
    /\ mcp_client = "None"
    /\ summary = NoSummary

NextService ==
    \/ DataSummaryCall
    \/ Co2Call
    \/ OccupancyCall
    \/ ComfortCall
    \/ ReportCall

SpecService == InitService /\ [][NextService]_vars

---------------------------------------------------------------------------
(* The web applications: one /chat request at a time.                      *)

\* The web applications: the four with /chat and the report service.
Apps ==
    {"frontend_simple", "frontend_agent", "backend_app", "backend_mcp_app",
     "report_service"}

\* mcp_client.agent of app_with_mcp.py after connect_mcp() at start-up.
AgentObjects == {"None", "connected"}

InitChat ==
    /\ proc \in [app : Apps, agent : AgentObjects]
    /\ proc.app # "backend_mcp_app" => proc.agent = "None"
    /\ file \in ReplacementFiles
    /\ cache = NoCache
    /\ building_data = NotLoaded
    /\ data_loaded = FALSE
    /\ out = NoCall
    /\ ChatIdle
    /\ threads = NoThreads
    /\ page = NoPage
    /\ mcp_client = "None"
    /\ summary = NoSummary

\* The response has been sent; the server takes the next request.
NextRequest ==
    /\ pc = "done"
    /\ pc' = "idle"
    /\ msg' = <<>>
    /\ env' = NoEnv
    /\ resp' = NoResponse
    /\ calls' = <<>>
    /\ UNCHANGED <<mcp_client, summary, page, threads, proc, file, cache, building_data, data_loaded, out>>

\* POST /chat to flask_app_simple.py.
SimpleChatRequest ==
    /\ proc.app = "frontend_simple"
    /\ pc = "idle"
    /\ \E message \in Messages, now \in Clock :
          LET done == SimpleChat(message, cache, file)
          IN  /\ msg' = message
              /\ resp' = done.resp
              /\ calls' = done.calls
              /\ cache' = done.cache
              /\ page' = IF done.calls = <<>> THEN page
                         ELSE FormatReport(done.calls[1].name, done.calls[1].argument,
                                           done.result, now, page)
    /\ pc' = "done"
    /\ env' = NoEnv
    /\ UNCHANGED <<mcp_client, summary, threads, proc, file, building_data, data_loaded, out>>

\* POST /chat to flask_app.py.
AgentFrontRequest ==
    /\ proc.app = "frontend_agent"
    /\ pc = "idle"
    /\ \E message \in Messages, a \in AgentBehaviours :
          LET start == AgentFrontStart(message)
          IN  /\ msg' = message
              /\ env' = IF start.pc = "done" THEN NoEnv
                        ELSE [agent |-> a, report |-> "None", llm |-> "None"]
              /\ pc' = start.pc
              /\ resp' = start.resp
              /\ calls' = start.calls
    /\ UNCHANGED <<mcp_client, summary, page, threads, proc, file, cache, building_data, data_loaded, out>>

\* agent.run returns or raises.
AgentFrontAnswer ==
    /\ proc.app = "frontend_agent"
    /\ pc = "wait_agent"
    /\ Outcome("agent", env.agent) # "blocked"
    /\ resp' = AgentFrontReturn(Outcome("agent", env.agent))
    /\ pc' = "done"
    /\ UNCHANGED <<mcp_client, summary, page, threads, proc, file, cache, building_data, data_loaded, out, msg, env, calls>>

\* POST /chat to backend/app.py.
BackendRequest ==
    /\ proc.app = "backend_app"
    /\ pc = "idle"
    /\ \E message \in Messages, r \in HttpBehaviours, l \in HttpBehaviours :
          LET start == BackendStart(message)
          IN  /\ msg' = message
              /\ env' = IF start.pc = "done" THEN NoEnv
                        ELSE [agent |-> "None",
                              report |-> IF start.pc = "wait_report" THEN r ELSE "None",
                              llm |-> l]
              /\ pc' = start.pc
              /\ resp' = start.resp
              /\ calls' = start.calls
    /\ UNCHANGED <<mcp_client, summary, page, threads, proc, file, cache, building_data, data_loaded, out>>

\* The report service answers, the connection fails or the timeout expires.
BackendReportAnswer ==
    /\ proc.app = "backend_app"
    /\ pc = "wait_report"
    /\ Outcome("report_service", env.report) # "blocked"
    /\ LET next == BackendAfterReport(Outcome("report_service", env.report), calls)
       IN  /\ pc' = next.pc
           /\ resp' = next.resp
           /\ calls' = next.calls
    /\ UNCHANGED <<mcp_client, summary, page, threads, proc, file, cache, building_data, data_loaded, out, msg, env>>

\* The language model answers, the connection fails or the timeout expires.
BackendLlmAnswer ==
    /\ proc.app = "backend_app"
    /\ pc = "wait_llm"
    /\ Outcome("llm", env.llm) # "blocked"
    /\ resp' = BackendAfterLlm(Outcome("llm", env.llm))
    /\ pc' = "done"
    /\ UNCHANGED <<mcp_client, summary, page, threads, proc, file, cache, building_data, data_loaded, out, msg, env, calls>>

\* POST /chat to backend/app_with_mcp.py.
McpRequest ==
    /\ proc.app = "backend_mcp_app"
    /\ pc = "idle"
    /\ \E message \in Messages, a \in AgentBehaviours, l \in HttpBehaviours :
          LET start == McpStart(message, proc.agent)
          IN  /\ msg' = message
              /\ env' = IF start.pc = "done" THEN NoEnv
                        ELSE [agent |-> IF start.pc = "wait_agent" THEN a ELSE "None",
                              report |-> "None", llm |-> l]
              /\ pc' = start.pc
              /\ resp' = start.resp
              /\ calls' = start.calls
    /\ UNCHANGED <<mcp_client, summary, page, threads, proc, file, cache, building_data, data_loaded, out>>

\* mcp_client.query returns or raises.
McpAgentAnswer ==
    /\ proc.app = "backend_mcp_app"
    /\ pc = "wait_agent"
    /\ Outcome("agent", env.agent) # "blocked"
    /\ LET next == McpAfterAgent(Outcome("agent", env.agent), calls)
       IN  /\ pc' = next.pc
           /\ resp' = next.resp
           /\ calls' = next.calls
    /\ UNCHANGED <<mcp_client, summary, page, threads, proc, file, cache, building_data, data_loaded, out, msg, env>>

\* The language model answers, the connection fails or the timeout expires.
McpLlmAnswer ==
    /\ proc.app = "backend_mcp_app"
    /\ pc = "wait_llm"
    /\ Outcome("llm", env.llm) # "blocked"
    /\ resp' = McpAfterLlm(Outcome("llm", env.llm))
    /\ pc' = "done"
    /\ UNCHANGED <<mcp_client, summary, page, threads, proc, file, cache, building_data, data_loaded, out, msg, env, calls>>

\* POST /analyze to backend/app_with_mcp.py.
AnalyzeCall ==
    /\ proc.app = "backend_mcp_app"
    /\ pc = "idle"
    /\ \E req \in AnalyzeRequests, a \in AgentBehaviours :
          LET start == AnalyzeStart(req, proc.agent)
          IN  /\ msg' = req
              /\ env' = IF start.pc = "done" THEN NoEnv
                        ELSE [agent |-> a, report |-> "None", llm |-> "None"]
              /\ pc' = start.pc
              /\ resp' = start.resp
              /\ calls' = start.calls
    /\ UNCHANGED <<mcp_client, summary, page, threads, proc, file, cache, building_data, data_loaded, out>>

\* The agent returns or raises.
AnalyzeAgentAnswer ==
    /\ proc.app = "backend_mcp_app"
    /\ pc = "wait_analyze"
    /\ Outcome("agent_analyze", env.agent) # "blocked"
    /\ resp' = AnalyzeAfterAgent(Outcome("agent_analyze", env.agent), msg)
    /\ pc' = "done"
    /\ UNCHANGED <<mcp_client, summary, page, threads, proc, file, cache, building_data, data_loaded, out, msg, env, calls>>

\* POST /report to report-service/app.py.
ReportRequest ==
    /\ proc.app = "report_service"
    /\ pc = "idle"
    /\ \E a \in AgentBehaviours, l \in HttpBehaviours :
          /\ env' = [agent |-> a, report |-> "None", llm |-> l]
          /\ pc' = ReportStart(mcp_client).pc
          /\ resp' = ReportStart(mcp_client).resp
          /\ calls' = ReportStart(mcp_client).calls
          /\ mcp_client' = ReportStart(mcp_client).mcp_client
    /\ UNCHANGED <<summary, page, threads, proc, file, cache, building_data,
                   data_loaded, out, msg>>

\* connect() of the new client returns or raises.
ReportConnectAnswer ==
    /\ proc.app = "report_service"
    /\ pc = "wait_connect"
    /\ \E outcome \in {"ok", "raise"} :
          LET next == ReportAfterConnect(outcome, calls, mcp_client)
          IN  /\ pc' = next.pc
              /\ resp' = next.resp
              /\ calls' = next.calls
              /\ mcp_client' = next.mcp_client
    /\ UNCHANGED <<summary, page, threads, proc, file, cache, building_data,
                   data_loaded, out, msg, env>>

\* The tool call through the MCP client returns or raises; a client that
\* never connected reaches no server.  The server process of a connected
\* client runs the tool on the dataset.
ReportToolAnswer ==
    /\ proc.app = "report_service"
    /\ pc = "wait_tool"
    /\ Outcome("mcp_tool", env.agent) # "blocked"
    /\ LET outcome == IF mcp_client = "connected"
                      THEN Outcome("mcp_tool", env.agent) ELSE "raise"
           loaded == load_dataset(building_data, data_loaded, file)
           result == generate_sustainability_report(loaded.building_data)
           next == ReportAfterTool(outcome, calls, result)
       IN  /\ pc' = next.pc
           /\ resp' = next.resp
           /\ calls' = next.calls
           /\ IF outcome = "ok"
              THEN /\ building_data' = loaded.building_data
                   /\ data_loaded' = loaded.data_loaded
                   /\ out' = CallRecord("generate_sustainability_report", NoDate,
                                        NoDate, "None", loaded.building_data, result)
              ELSE UNCHANGED <<building_data, data_loaded, out>>
    /\ UNCHANGED <<mcp_client, summary, page, threads, proc, file, cache, msg, env>>

\* The language model answers, the connection fails or the timeout expires.
ReportLlmAnswer ==
    /\ proc.app = "report_service"
    /\ pc = "wait_llm"
    /\ resp' = ReportAfterLlm(Outcome("llm_report", env.llm))
    /\ summary' = ReportSummary(out.result.data)
    /\ pc' = "done"
    /\ UNCHANGED <<mcp_client, page, threads, proc, file, cache, building_data,
                   data_loaded, out, msg, env, calls>>

NextChat ==
    \/ SimpleChatRequest
    \/ AgentFrontRequest
    \/ AgentFrontAnswer
    \/ BackendRequest
    \/ BackendReportAnswer
    \/ BackendLlmAnswer
    \/ McpRequest
    \/ McpAgentAnswer
    \/ McpLlmAnswer
    \/ AnalyzeCall
    \/ AnalyzeAgentAnswer
    \/ ReportRequest
    \/ ReportConnectAnswer
    \/ ReportToolAnswer
    \/ ReportLlmAnswer
    \/ NextRequest

SpecChat == InitChat /\ [][NextChat]_vars

\* A handler that can take a step does so: the web server runs it.
FairSpecChat == SpecChat /\ WF_vars(NextChat)

---------------------------------------------------------------------------
(* The accessors under concurrent tool calls: every thread runs            *)
(* get_dataset() or load_dataset() one statement at a time over the        *)
(* module's globals, and then reads the frame as its tool does.            *)

\* The files of the concurrent model: none, a table with its rows out of
\* order, a table with one row.
LoadFiles ==
    { NoTable,
      [state |-> "ok", cols |-> FullCols,
       rows |-> <<Row(MaxTime, 1200, 27, 65, 0, 1200), Row(1, 500, 23, 50, 1, 400)>>],
      [state |-> "ok", cols |-> FullCols,
       rows |-> <<Row(1, 500, 23, 50, 1, 400)>>] }

InitLoad ==
    /\ proc \in {"backend_threads", "service_threads"}
    /\ file \in LoadFiles
    /\ cache = NoCache
    /\ building_data = NotLoaded
    /\ data_loaded = FALSE
    /\ out = NoCall
    /\ ChatIdle
    /\ threads = NoThreads
    /\ page = NoPage
    /\ mcp_client = "None"
    /\ summary = NoSummary

\* Thread t moves to pc, with what it has seen or raised.
Move(t, to, raised, seen) ==
    threads' = [threads EXCEPT ![t] = [pc |-> to, raised |-> raised, seen |-> seen]]

\* mcp_server.py:18, a tool calls get_dataset(): if _DATASET_CACHE is None
GetDatasetCheck(t) ==
    /\ proc = "backend_threads"
    /\ threads[t].pc \in {"idle", "done"}
    /\ Move(t, IF cache.loaded THEN "return" ELSE "read", FALSE, EmptyFrame)
    /\ UNCHANGED <<mcp_client, summary, page, proc, file, cache, building_data, data_loaded, out,
                   pc, msg, env, resp, calls>>

\* mcp_server.py:20, _DATASET_CACHE = pd.read_csv(DATASET_PATH); the
\* exception leaves get_dataset and is caught by the tool.
GetDatasetRead(t) ==
    /\ proc = "backend_threads"
    /\ threads[t].pc = "read"
    /\ IF file.state = "ok"
       THEN /\ cache' = [loaded |-> TRUE, frame |-> read_csv(file)]
            /\ Move(t, "return", FALSE, EmptyFrame)
       ELSE /\ cache' = cache
            /\ Move(t, "done", TRUE, EmptyFrame)
    /\ UNCHANGED <<mcp_client, summary, page, proc, file, building_data, data_loaded, out,
                   pc, msg, env, resp, calls>>

\* mcp_server.py:22, return _DATASET_CACHE.copy(): the frame the tool uses.
GetDatasetReturn(t) ==
    /\ proc = "backend_threads"
    /\ threads[t].pc = "return"
    /\ Move(t, "done", FALSE, cache.frame)
    /\ UNCHANGED <<mcp_client, summary, page, proc, file, cache, building_data, data_loaded, out,
                   pc, msg, env, resp, calls>>

\* server.py:28, a tool calls load_dataset(): if data_loaded: return
LoadDatasetCheck(t) ==
    /\ proc = "service_threads"
    /\ threads[t].pc \in {"idle", "done"}
    /\ Move(t, IF data_loaded THEN "tool" ELSE "read", FALSE, EmptyFrame)
    /\ UNCHANGED <<mcp_client, summary, page, proc, file, cache, building_data, data_loaded, out,
                   pc, msg, env, resp, calls>>

\* server.py:33, building_data = pd.read_csv(dataset_path)
LoadDatasetRead(t) ==
    /\ proc = "service_threads"
    /\ threads[t].pc = "read"
    /\ IF file.state = "ok"
       THEN /\ building_data' = read_csv(file)
            /\ Move(t, "parse", FALSE, EmptyFrame)
       ELSE /\ building_data' = building_data
            /\ Move(t, "except", FALSE, EmptyFrame)
    /\ UNCHANGED <<mcp_client, summary, page, proc, file, cache, data_loaded, out, pc, msg, env, resp, calls>>

\* server.py:34, building_data['datetime'] = pd.to_datetime(...), on the
\* frame the global names now.
LoadDatasetParse(t) ==
    /\ proc = "service_threads"
    /\ threads[t].pc = "parse"
    /\ Move(t, IF "datetime" \notin building_data.cols \/ HasBadDate(building_data.rows)
               THEN "except" ELSE "sort", FALSE, EmptyFrame)
    /\ UNCHANGED <<mcp_client, summary, page, proc, file, cache, building_data, data_loaded, out,
                   pc, msg, env, resp, calls>>

\* server.py:35, building_data = building_data.sort_values('datetime')
LoadDatasetSort(t) ==
    /\ proc = "service_threads"
    /\ threads[t].pc = "sort"
    /\ building_data' = [building_data EXCEPT !.rows = SortRows(building_data.rows)]
    /\ Move(t, "flag", FALSE, EmptyFrame)
    /\ UNCHANGED <<mcp_client, summary, page, proc, file, cache, data_loaded, out, pc, msg, env, resp, calls>>

\* server.py:36, data_loaded = True
LoadDatasetFlag(t) ==
    /\ proc = "service_threads"
    /\ threads[t].pc = "flag"
    /\ data_loaded' = TRUE
    /\ Move(t, "tool", FALSE, EmptyFrame)
    /\ UNCHANGED <<mcp_client, summary, page, proc, file, cache, building_data, out, pc, msg, env, resp, calls>>

\* server.py:38-40, except: building_data = pd.DataFrame()
LoadDatasetExcept(t) ==
    /\ proc = "service_threads"
    /\ threads[t].pc = "except"
    /\ building_data' = EmptyFrame
    /\ Move(t, "tool", FALSE, EmptyFrame)
    /\ UNCHANGED <<mcp_client, summary, page, proc, file, cache, data_loaded, out, pc, msg, env, resp, calls>>

\* The tool reads the global building_data (server.py:47, 101, 161, 211).
ToolReads(t) ==
    /\ proc = "service_threads"
    /\ threads[t].pc = "tool"
    /\ Move(t, "done", FALSE, building_data)
    /\ UNCHANGED <<mcp_client, summary, page, proc, file, cache, building_data, data_loaded, out,
                   pc, msg, env, resp, calls>>

\* The file is replaced, removed or created while calls are in progress.
LoadFileChange ==
    /\ \E f \in LoadFiles : f # file /\ file' = f
    /\ UNCHANGED <<mcp_client, summary, page, proc, cache, building_data, data_loaded, out,
                   pc, msg, env, resp, calls, threads>>

NextLoad ==
    \/ \E t \in Threads : GetDatasetCheck(t)
    \/ \E t \in Threads : GetDatasetRead(t)
    \/ \E t \in Threads : GetDatasetReturn(t)
    \/ \E t \in Threads : LoadDatasetCheck(t)
    \/ \E t \in Threads : LoadDatasetRead(t)
    \/ \E t \in Threads : LoadDatasetParse(t)
    \/ \E t \in Threads : LoadDatasetSort(t)
    \/ \E t \in Threads : LoadDatasetFlag(t)
    \/ \E t \in Threads : LoadDatasetExcept(t)
    \/ \E t \in Threads : ToolReads(t)
    \/ LoadFileChange

SpecLoad == InitLoad /\ [][NextLoad]_vars

---------------------------------------------------------------------------
(* Properties of the keyword router and of the help group.                 *)

\* The keyword groups in the order of their priority, each with the direct
\* call it stands for.
RouterGroups ==
    << [keywords |-> energy_keywords,
        call |-> Call("tool", "get_building_energy_stats", "None")],
       [keywords |-> sustainability_group_keywords,
        call |-> Call("tool", "get_sustainability_metrics", "None")],
       [keywords |-> carbon_keywords,
        call |-> Call("tool", "analyze_eco_impact", "carbon_footprint")],
       [keywords |-> water_keywords,
        call |-> Call("tool", "analyze_eco_impact", "water_usage")],
       [keywords |-> environment_keywords,
        call |-> Call("tool", "get_building_energy_stats", "None")] >>

\* The groups with a keyword occurring in the lower-cased message.
MatchingGroups(message) ==
    { i \in DOMAIN RouterGroups : AnyKeyword(Lower(message), RouterGroups[i].keywords) }

FirstGroup(message) ==
    CHOOSE i \in MatchingGroups(message) : \A j \in MatchingGroups(message) : i <= j

\* The request being answered, or answered, by the keyword-routed handler
\* holds a non-empty message without help keyword.
RoutedMessage ==
    /\ proc.app = "frontend_simple"
    /\ pc = "done"
    /\ Strip(msg) # <<>>
    /\ ~AnyKeyword(Lower(msg), help_keywords)

\* C1: in the keyword-routed /chat handler a non-help message that matches
\* one or more keyword groups is answered by exactly one direct call, the
\* call of the earliest matching group in the order energy/stats,
\* sustainability, carbon (analyze_eco_impact, carbon_footprint), water
\* (analyze_eco_impact, water_usage), generic environmental
\* (get_building_energy_stats).
C1_FirstMatchingGroupWins ==
    (RoutedMessage /\ MatchingGroups(msg) # {})
        => calls = << RouterGroups[FirstGroup(msg)].call >>

\* A message with a carbon and a water keyword, and no keyword of an earlier
\* group, has been routed to the carbon footprint.
C1_Witness ==
    /\ RoutedMessage
    /\ {3, 4} \subseteq MatchingGroups(msg)
    /\ FirstGroup(msg) = 3
    /\ calls = << Call("tool", "analyze_eco_impact", "carbon_footprint") >>

\* The help keywords of the handler of an application.
HelpKeywordsOf(app) ==
    IF app = "frontend_simple" THEN help_keywords ELSE help_keywords_agent

\* The request of a front end holds a non-empty message with a help keyword.
HelpMessage ==
    /\ proc.app \in {"frontend_simple", "frontend_agent"}
    /\ pc # "idle"
    /\ Strip(msg) # <<>>
    /\ AnyKeyword(Lower(msg), HelpKeywordsOf(proc.app))

\* C2: in the /chat handlers with a help group (flask_app_simple.py and
\* flask_app.py) a non-empty message containing a help keyword is answered
\* at once with the static information labelled 'local', and neither a
\* metric tool nor the agent is called, whatever other keywords it holds.
C2_HelpShortCircuits ==
    HelpMessage =>
        /\ pc = "done"
        /\ resp = Response(200, "local", "building information")
        /\ calls = <<>>

\* A message with a help keyword and a keyword of a tool group has been
\* answered by the keyword-routed handler.
C2_Witness ==
    /\ HelpMessage
    /\ proc.app = "frontend_simple"
    /\ MatchingGroups(msg) # {}
    /\ pc = "done"
    /\ resp.source = "local"

\* C3: in the keyword-routed /chat handler a non-empty message with no help
\* keyword and no keyword of any group gets the fixed "could not understand"
\* answer with status 200, and no tool is called.
C3_NoMatchNoTool ==
    (RoutedMessage /\ MatchingGroups(msg) = {})
        => /\ resp = Response(200, "local", "could not understand")
           /\ calls = <<>>

\* A message of two words without any keyword has been answered.
C3_Witness ==
    /\ RoutedMessage
    /\ MatchingGroups(msg) = {}
    /\ \E i \in DOMAIN msg : msg[i] = " "
    /\ resp.status = 200
    /\ resp.body = "could not understand"

---------------------------------------------------------------------------
(* Properties of the metric tools and of the dataset accessors.            *)

\* A tool has been called.
Called == out.tool # "None"

\* C4: a call of a metric tool returns a text, whatever the state of the
\* dataset; no exception leaves the tool.
C4_NoExceptionEscapes ==
    Called => out.result.kind # "raise"

\* The rows a call with a date range has to use: those of the frame with
\* start_date <= t <= end_date, an absent bound not restricting.
RowsInRange(df, start_date, end_date) ==
    SelectSeq(df.rows,
              LAMBDA r : /\ (start_date = NoDate \/ start_date <= r.t)
                         /\ (end_date = NoDate \/ r.t <= end_date))

\* The dates of the frame and of the arguments of the call are all dates,
\* so that the date range of the call is defined.
DatesParse ==
    /\ ~HasBadDate(out.df.rows)
    /\ out.start_date # BadDate
    /\ out.end_date # BadDate

\* The tool was given a frame with columns and its view of it has no row.
EmptyView ==
    /\ Called
    /\ DatesParse
    /\ out.df.cols # {}
    /\ RowsInRange(out.df, out.start_date, out.end_date) = <<>>

\* The recommendations that say that measured values are in order.
AllClear ==
    {"conditions optimal", "energy within normal ranges",
     "maintain current standards", "humidity ideal"}

\* C5: a tool whose view of the dataset has no row returns no exception, no
\* NaN statistic, no date span made of NaN and no recommendation saying
\* that the values are in order.
C5_EmptyViewIsNotAvailable ==
    EmptyView =>
        /\ out.result.kind # "raise"
        /\ (out.tool = "get_building_energy_stats" /\ out.result.kind = "json") =>
              /\ \A col \in DOMAIN out.result.data.mean :
                    ~out.result.data.mean[col].nan
              /\ ~(out.result.data.span.available /\ out.result.data.span.from.nan)
        /\ (out.tool \in {"get_sustainability_metrics", "analyze_eco_impact"}
                /\ out.result.kind = "json") =>
              \A i \in DOMAIN out.result.data.recommendations :
                  out.result.data.recommendations[i] \notin AllClear
        /\ (out.tool = "analyze_eco_impact" /\ out.result.kind = "json") =>
              ~out.result.data.average.nan

\* C6: the record count and the date span get_building_energy_stats
\* reports, and the readings and the period analyze_co2_levels reports, are
\* those of the rows with start_date <= t <= end_date.
C6_DateRangeIsApplied ==
    LET rows == RowsInRange(out.df, out.start_date, out.end_date)
    IN  DatesParse =>
        /\ (out.tool = "get_building_energy_stats" /\ out.result.kind = "json") =>
              /\ out.result.data.total = Len(rows)
              /\ out.result.data.span.available =>
                    /\ out.result.data.span.from = Min(rows, "datetime")
                    /\ out.result.data.span.to = Max(rows, "datetime")
        /\ (out.tool = "analyze_co2_levels" /\ out.result.kind = "json") =>
              /\ out.result.data.period.total_readings = Len(Present(rows, "co2"))
              /\ out.result.data.period.start = Min(rows, "datetime")
              /\ out.result.data.period.end = Max(rows, "datetime")

\* C7: once the dataset is loaded no step replaces or changes the cached
\* frame, and the frame a tool call is given is the cached one, also after
\* the file has changed.
C7_CacheIsNeverReloaded ==
    [][ /\ cache.loaded => cache' = cache
        /\ data_loaded => (data_loaded' /\ building_data' = building_data)
        /\ (cache'.loaded /\ out'.tool \in BackendTools) => out'.df = cache'.frame
        /\ (data_loaded' /\ out'.tool \in ServiceTools) => out'.df = building_data'
      ]_vars

\* A backend tool has returned statistics of the cached rows although the
\* file is gone or holds other rows.
C7_Witness ==
    /\ cache.loaded
    /\ cache.frame.rows # <<>>
    /\ file.rows # cache.frame.rows
    /\ out.tool \in BackendTools
    /\ out.result.kind = "json"
    /\ out.df = cache.frame

\* The texts by which a tool says that there is no data.
NoDataMessages ==
    {Text("No data available"),
     Text("No data available for report generation"),
     Text("No CO2 data available for the specified period"),
     Text("No motion sensor data available"),
     Text("No temperature or humidity data available")}

\* C8: while the file is missing or unparsable, loading raises nothing and
\* a tool called returns its "no data available" message.
C8_UnreadableFileIsNoData ==
    (Called /\ file.state # "ok" /\ ~cache.loaded /\ ~data_loaded) =>
        /\ proc = "backend_tools" => ~get_dataset(cache, file).raised
        /\ out.result \in NoDataMessages

---------------------------------------------------------------------------
(* Properties of the handlers that wait for a service.                    *)

\* The agent call of the request was made and failed.
AgentFailed ==
    /\ calls # <<>>
    /\ calls[1].target = "agent"
    /\ Outcome("agent", env.agent) = "raise"

\* The report-service call of the request was made and failed or timed out.
ReportFailed ==
    /\ calls # <<>>
    /\ calls[1].target = "report_service"
    /\ Outcome("report_service", env.report) # "200"

\* A metric tool was called directly for the request.
DirectToolCall == \E i \in DOMAIN calls : calls[i].target = "tool"

C10_EveryWaitEnds ==
    pc \in {"wait_agent", "wait_report", "wait_llm", "wait_tool", "wait_analyze",
           "wait_connect"}
        => ENABLED NextChat

---------------------------------------------------------------------------
(* Properties of the accessors under concurrent calls.                     *)

\* The frames the tool calls that have returned were given.
SeenFrames ==
    { threads[t].seen : t \in { u \in Threads : threads[u].pc = "done" /\ ~threads[u].raised } }

\* C11: under any interleaving of tool calls, a dataset marked loaded is
\* whole (it has its columns and its rows are in order of time) and stays
\* the one that was loaded, and the calls that were given a dataset were all
\* given the same one.
C11_LoadIsAtomic ==
    /\ data_loaded =>
          /\ building_data.cols # {}
          /\ building_data.rows = SortRows(building_data.rows)
    /\ \A a \in SeenFrames, b \in SeenFrames :
          (a.cols # {} /\ b.cols # {}) => a = b

---------------------------------------------------------------------------
(* Properties of the report service.                                       *)

\* The language-model call of the report was made and did not answer 200.
ReportModelFailed ==
    /\ proc.app = "report_service"
    /\ pc = "done"
    /\ \E i \in DOMAIN calls : calls[i].target = "llm_report"
    /\ Outcome("llm_report", env.llm) # "200"

\* C12: when the language model is unreachable or answers another status
\* than 200 while a report is generated, the response of /report is not a
\* success: its status label is not 'success' and its code is not 200.
C12_ModelFailureIsAnError ==
    ReportModelFailed => (resp.source # "success" /\ resp.status # 200)

---------------------------------------------------------------------------
(* Properties of the chat endpoints.                                       *)

\* The applications with a /chat endpoint.
ChatApps == {"frontend_simple", "frontend_agent", "backend_app", "backend_mcp_app"}

\* A /chat request whose message field is absent or the empty string (both
\* read as '' by data.get('message', '')) is being handled.
EmptyMessage ==
    /\ proc.app \in ChatApps
    /\ pc # "idle"
    /\ msg = <<>>

\* C13: at every chat endpoint a request whose message is missing or empty
\* is answered at once with 400 "Message is required", and no tool, agent,
\* report-service or language-model call is made for it.
C13_EmptyMessageIs400 ==
    EmptyMessage =>
        /\ pc = "done"
        /\ resp = Response(400, "None", "Message is required")
        /\ calls = <<>>

\* app_with_mcp.py, its agent connected, has refused an empty message.
C13_Witness ==
    /\ EmptyMessage
    /\ proc = [app |-> "backend_mcp_app", agent |-> "connected"]
    /\ pc = "done"
    /\ resp.status = 400

\* The texts by which a tool or the agent reports its failure.
FailureTexts ==
    {"error reading building data", "error computing sustainability metrics",
     "error analysing eco impact", "Error connecting to Building 413 data"}

\* C14: a chat response of a front end carries the label of the path that
\* made it: 'local' only without any call, the tool-direct label only with
\* the result of the routed tool, the agent label only with the agent's
\* answer, 'error' whenever the tool or the agent failed; a response
\* labelled tool-direct or agent carries no failure text.
C14_LabelTellsThePath ==
    (proc.app \in {"frontend_simple", "frontend_agent"} /\ pc = "done"
        /\ resp.status # 400) =>
        /\ resp.source \in {"local", "mcp_direct", "mcp_agent", "error"}
        /\ resp.source = "local" => calls = <<>>
        /\ resp.source = "mcp_direct" =>
              (DirectToolCall /\ resp.body \notin FailureTexts)
        /\ resp.source = "mcp_agent" =>
              (Outcome("agent", env.agent) = "ok" /\ resp.body \notin FailureTexts)
        /\ (resp.body \in FailureTexts \/ AgentFailed) => resp.source = "error"

---------------------------------------------------------------------------
(* Properties of /analyze.                                                 *)

\* A POST /analyze is being handled, or has been answered.
Analyzing ==
    /\ proc.app = "backend_mcp_app"
    /\ pc # "idle"
    /\ msg # <<>>
    /\ msg[1] = "/analyze"

\* The method of the client a type is dispatched to.
MethodOf(type) ==
    CASE type = "period" -> "analyze_period"
      [] type = "recommendations" -> "get_recommendations"
      [] type = "compare" -> "compare_periods"
      [] OTHER -> "query"

\* The request lacks a date its type requires.
DatesMissing(req) ==
    \/ req[2] = "period" /\ (req[3] = "None" \/ req[4] = "None")
    \/ req[2] = "compare" /\ (\E i \in 5..8 : req[i] = "None")

\* C15: /analyze calls the agent at most once and only after validation:
\* 503 without a connected agent, whatever the type; 400 for 'period'
\* without both dates and for 'compare' without all four, the agent not
\* called; otherwise one call of analyze_period, get_recommendations,
\* compare_periods or, for any other type, query, and when the agent
\* answers, the response holds the requested type and status 'success'.
C15_AnalyzeValidatesThenAsksOnce ==
    Analyzing =>
        /\ Len(calls) <= 1
        /\ proc.agent = "None" =>
              /\ pc = "done"
              /\ resp.status = 503
              /\ calls = <<>>
        /\ (proc.agent # "None" /\ DatesMissing(msg)) =>
              /\ pc = "done"
              /\ resp.status = 400
              /\ calls = <<>>
        /\ (proc.agent # "None" /\ ~DatesMissing(msg)) =>
              /\ calls = << Call("agent_analyze", MethodOf(msg[2]), "prompt") >>
              /\ (pc = "done" /\ Outcome("agent_analyze", env.agent) = "ok") =>
                    resp = Response(200, "success", msg[2])

\* A comparison with its four dates has been answered by the agent.
C15_Witness ==
    /\ Analyzing
    /\ pc = "done"
    /\ msg[2] = "compare"
    /\ ~DatesMissing(msg)
    /\ calls = << Call("agent_analyze", "compare_periods", "prompt") >>
    /\ resp = Response(200, "success", "compare")

---------------------------------------------------------------------------
(* Properties of the recommendation and rating bands.                      *)

\* The structured result of the last call of a tool, when it has one.
Structured(tool) ==
    /\ out.tool = tool
    /\ out.result.kind = "json"

\* C16: the carbon-footprint analysis chooses the rating and the
\* recommendation list by the same three bands of the mean CO2: below 600
\* the best rating and the single 'maintain' item, from 600 to below 1000
\* the middle rating and the two-item list, from 1000 up the worst rating
\* and the three-item list, the means 600 and 1000 included.
C16_RatingAndListShareBands ==
    (/\ Structured("analyze_eco_impact")
     /\ out.metric_type = "carbon_footprint"
     /\ ~out.result.data.average.nan) =>
        LET r == out.result.data
            mean == r.average
        IN  /\ LT(mean, 600) =>
                /\ r.rating = "excellent"
                /\ r.recommendations = <<"maintain current standards">>
            /\ (GE(mean, 600) /\ LT(mean, 1000)) =>
                /\ r.rating = "needs improvement"
                /\ Len(r.recommendations) = 2
            /\ GE(mean, 1000) =>
                /\ r.rating = "poor"
                /\ Len(r.recommendations) = 3

\* C17: with an energy column get_sustainability_metrics gives exactly one
\* threshold recommendation: the high-consumption warning when the average
\* is above 1000, the monitor-peak-hours advice when it is above 500 and at
\* most 1000, the within-normal-ranges message when it is at most 500.
C17_OneEnergyRecommendation ==
    (/\ Structured("get_sustainability_metrics")
     /\ out.result.data.energy
     /\ ~out.result.data.avg_energy.nan) =>
        LET r == out.result.data
            avg == r.avg_energy
        IN  /\ Len(r.recommendations) = 1
            /\ GT(avg, 1000) => r.recommendations = <<"high energy consumption">>
            /\ (GT(avg, 500) /\ LE(avg, 1000)) =>
                  r.recommendations = <<"monitor peak hours">>
            /\ LE(avg, 500) => r.recommendations = <<"energy within normal ranges">>

\* The recommendations of a result, as a set.
Notes(r) == { r.recommendations[i] : i \in DOMAIN r.recommendations }

\* The structured result of get_sustainability_metrics on a dataset without
\* an energy column.
EnvironmentMetrics ==
    /\ Structured("get_sustainability_metrics")
    /\ ~out.result.data.energy

\* C18 as stated: without an energy column "conditions optimal" is given
\* exactly when the mean CO2 is at most 1000, the mean temperature at most
\* 25 and the mean humidity at most 60, and is then the only
\* recommendation; a triggered band gives its note and not the optimal
\* message.
C18_OptimalBelowThreeBands ==
    EnvironmentMetrics =>
        LET r == out.result.data
            calm == LE(r.co2, 1000) /\ LE(r.temperature, 25) /\ LE(r.humidity, 60)
        IN  /\ ("conditions optimal" \in Notes(r)) <=> calm
            /\ calm => r.recommendations = <<"conditions optimal">>
            /\ GT(r.co2, 1000) => "co2 high" \in Notes(r)
            /\ GT(r.temperature, 25) => "temperature high" \in Notes(r)
            /\ GT(r.humidity, 60) => "humidity high" \in Notes(r)

\* One of the six tests on the three averages succeeds.
BandTriggered(r) ==
    \/ GT(r.co2, 600)
    \/ GT(r.temperature, 25) \/ LT(r.temperature, 22)
    \/ GT(r.humidity, 60) \/ LT(r.humidity, 40)

\* C18, amended: "conditions optimal" is given exactly when none of six
\* bands is triggered (mean CO2 above 1000 or above 600, mean temperature
\* above 25 or below 22, mean humidity above 60 or below 40), and is then
\* the only recommendation; every triggered band gives its note.
C18_OptimalWhenNoBandOfSix ==
    EnvironmentMetrics =>
        LET r == out.result.data
        IN  /\ ("conditions optimal" \in Notes(r)) <=> ~BandTriggered(r)
            /\ ~BandTriggered(r) => r.recommendations = <<"conditions optimal">>
            /\ GT(r.co2, 1000) => "co2 high" \in Notes(r)
            /\ (GT(r.co2, 600) /\ LE(r.co2, 1000)) => "monitor co2" \in Notes(r)
            /\ GT(r.temperature, 25) => "temperature high" \in Notes(r)
            /\ LT(r.temperature, 22) => "temperature low" \in Notes(r)
            /\ GT(r.humidity, 60) => "humidity high" \in Notes(r)
            /\ LT(r.humidity, 40) => "humidity low" \in Notes(r)

\* The averages lie on the upper limits of the optimal bands and the only
\* recommendation is the optimal message.
C18_Witness ==
    /\ EnvironmentMetrics
    /\ out.result.data.co2 = Num(600)
    /\ out.result.data.temperature = Num(25)
    /\ out.result.data.humidity = Num(60)
    /\ out.result.data.recommendations = <<"conditions optimal">>

\* The tools that return metrics of the dataset.
MetricTools == BackendTools \cup {"analyze_co2_levels"}

\* C19: every structured result of a metric tool holds a recommendations
\* list, and the list is never empty.
C19_RecommendationsNeverEmpty ==
    (out.tool \in MetricTools /\ out.result.kind = "json") =>
        /\ "recommendations" \in DOMAIN out.result.data
        /\ out.result.data.recommendations # <<>>

\* The five bands of a CO2 value in ppm: above lo and at most hi.
Co2Bands ==
    [excellent |-> [lo |-> -1, hi |-> 400],
     good |-> [lo |-> 400, hi |-> 600],
     acceptable |-> [lo |-> 600, hi |-> 1000],
     poor |-> [lo |-> 1000, hi |-> 1500],
     very_poor |-> [lo |-> 1500, hi |-> 1000000]]

\* The readings analyze_co2_levels was called on.
Co2Readings == Present(Co2Rows(out.df, out.start_date, out.end_date), "co2")

---------------------------------------------------------------------------
(* Properties of the analysis service.                                     *)

\* The rows of the frame of the last call with both a temperature and a
\* humidity, and those of them inside both optimal ranges.
JointRows ==
    SelectSeq(out.df.rows, LAMBDA r : r.temperature # NULL /\ r.humidity # NULL)
JointOptimal ==
    SelectSeq(JointRows, LAMBDA r : /\ 20 <= r.temperature /\ r.temperature <= 24
                                    /\ 40 <= r.humidity /\ r.humidity <= 60)

MotionRows == SelectSeq(out.df.rows, LAMBDA r : r.pir # NULL)
HourMotion(h) == Sum(SelectSeq(MotionRows, LAMBDA r : r.t % 24 = h), "pir")
DayMotion(d) == Sum(SelectSeq(MotionRows, LAMBDA r : DayOf(r.t) = d), "pir")
MotionHours == { MotionRows[i].t % 24 : i \in 1..Len(MotionRows) }
MotionDays == { DayOf(MotionRows[i].t) : i \in 1..Len(MotionRows) }

\* The place of a day in the order of the grouping.
DayRank(d) == CHOOSE i \in 1..7 : SortedDays[i] = d

\* C22: analyze_occupancy_patterns reports as peak hour and as peak day a
\* key whose summed motion is maximal, and among the keys that tie for the
\* maximum the first in the order of the grouping (hours ascending, day
\* names sorted), so that the dataset determines the peak.
C22_PeakIsFirstMaximum ==
    Structured("analyze_occupancy_patterns") =>
        LET r == out.result.data
        IN  /\ r.peak_activity_hour \in MotionHours
            /\ \A h \in MotionHours :
                  /\ HourMotion(h) <= HourMotion(r.peak_activity_hour)
                  /\ HourMotion(h) = HourMotion(r.peak_activity_hour)
                        => r.peak_activity_hour <= h
            /\ r.peak_activity_day \in MotionDays
            /\ \A d \in MotionDays :
                  /\ DayMotion(d) <= DayMotion(r.peak_activity_day)
                  /\ DayMotion(d) = DayMotion(r.peak_activity_day)
                        => DayRank(r.peak_activity_day) <= DayRank(d)

\* Tuesday, the first day of the data, and Thursday tie, and Thursday, the
\* first of the two in the grouping, is the peak; two hours tie as well.
C22_Witness ==
    /\ Structured("analyze_occupancy_patterns")
    /\ MotionDays = {"Tuesday", "Thursday"}
    /\ DayMotion("Tuesday") = DayMotion("Thursday")
    /\ out.result.data.peak_activity_day = "Thursday"
    /\ MotionHours = {1, 2}
    /\ HourMotion(1) = HourMotion(2)
    /\ out.result.data.peak_activity_hour = 1

\* The efficiency scores the CO2 analysis and the comfort analysis of a
\* report produced.
ProducedScores(report) ==
    <<report.air_quality.energy_efficiency_score>>
      \o (IF report.environmental_comfort.has_comfort_insights
          THEN <<report.environmental_comfort.energy_efficiency_score>>
          ELSE <<>>)

\* C23: the overall sustainability score of a report is the mean of the
\* efficiency scores its CO2 and comfort analyses produced, rounded to one
\* decimal; an analysis without a score adds nothing to the mean.
C23_ScoreIsMeanOfProducedScores ==
    Structured("generate_sustainability_report") =>
        LET r == out.result.data
            s == ProducedScores(r)
            total == IF Len(s) = 1 THEN s[1]
                     ELSE Frac(s[1].num * s[2].den + s[2].num * s[1].den,
                               2 * s[1].den * s[2].den)
        IN  /\ 10 * r.overall_sustainability_score * total.den - 5 * total.den
                 <= 100 * total.num
            /\ 100 * total.num
                 <= 10 * r.overall_sustainability_score * total.den + 5 * total.den

---------------------------------------------------------------------------
(* Properties of the metric tools and the formatters.                      *)

\* C24: analyze_eco_impact with a metric_type other than carbon_footprint
\* and water_usage returns the "analysis completed with available data"
\* text, never an error, whatever the state of the dataset.
C24_UnknownMetricIsGeneric ==
    (/\ out.tool = "analyze_eco_impact"
     /\ out.metric_type \notin {"carbon_footprint", "water_usage"}) =>
        out.result = Text("analysis completed with available data")

\* A formatter has rendered a report.
Formatted == page.formatter # "None"

\* C25: for each routed tool and each dictionary it returns, the keys the
\* tool emits are the keys its formatter reads: the formatter drops no key
\* of the tool and misses none it expects.
C25_FormatterReadsWhatToolEmits ==
    Formatted =>
        /\ page.absent = {}
        /\ page.shown = EmittedKeys(page.formatter, page.input.data)

\* C26: a formatter is a function of the tool result and the tool kind:
\* rendering the same result again, at whatever moment, gives the same
\* report.
C26_SameResultSameReport ==
    [][(/\ Formatted
        /\ page'.formatter = page.formatter
        /\ page'.metric_type = page.metric_type
        /\ page'.input = page.input) => page' = page]_vars

---------------------------------------------------------------------------
(* Properties of backend/app.py and of the report service.                 *)

\* backend/app.py handles a message with a report keyword and the report
\* service has not answered 200: another status, an exception or no answer
\* within the timeout.
ReportServiceFailed ==
    /\ proc.app = "backend_app"
    /\ pc # "idle"
    /\ AnyKeyword(Lower(msg), report_keywords)
    /\ env.report # "200"

\* C27: in /chat of backend/app.py a failure of the report service gives
\* no error response by itself: the request goes on to the plain
\* language-model call with the original message, and ends with 200 and
\* type 'chat' when that call returns 200, with 500 when it returns
\* another status and with 503 when it raises; a response of type
\* 'report' is sent only after the report service answered 200.
C27_ReportFailureFallsBackToModel ==
    /\ ReportServiceFailed =>
          /\ pc = "wait_report" =>
                /\ calls = << Call("report_service", "/report", "message") >>
                /\ ENABLED BackendReportAnswer
          /\ pc \in {"wait_llm", "done"} =>
                calls = << Call("report_service", "/report", "message"),
                           Call("llm", "generate", "message") >>
          /\ pc = "wait_llm" => ENABLED BackendLlmAnswer
          /\ pc = "done" =>
                /\ env.llm = "200" => resp = Response(200, "chat", "llm answer")
                /\ env.llm = "non200" => resp.status = 500
                /\ env.llm \in {"raise", "never"} => resp.status = 503
    /\ (proc.app = "backend_app" /\ resp.source = "report") =>
          /\ env.report = "200"
          /\ resp.status = 200

\* The report service did not answer in time and the model did: the
\* response is the model's, of type 'chat'.
C27_Witness ==
    /\ ReportServiceFailed
    /\ env.report = "never"
    /\ pc = "done"
    /\ Len(calls) = 2
    /\ resp = Response(200, "chat", "llm answer")

\* C28: generate_sustainability_report returns a text, a report or a
\* no-data message, for every dataset that is not empty, also when a
\* sensor has no value at all and its analysis returns a plain message:
\* composing the analyses never raises.
C28_ReportComposesWithoutRaising ==
    (out.tool = "generate_sustainability_report" /\ ~IsEmpty(out.df)) =>
        out.result.kind # "raise"


\* C29: in every sequence of /report requests the client get_mcp_client
\* returns, the one the tool is then called on, has completed connect();
\* after a request whose connect() failed, the next request connects again.
C29_ReturnedClientIsConnected ==
    (proc.app = "report_service" /\ pc = "wait_tool") => mcp_client = "connected"

ReportSucceeded ==
    proc.app = "report_service" /\ pc = "done" /\ resp.status = 200

\* C30: the summary of a successful /report response agrees with the
\* report it accompanies: data_points_analyzed is the report's
\* total_records_analyzed, sustainability_score its
\* overall_sustainability_score, key_recommendations the first three of its
\* recommendations, which are its priority_recommendations.
C30_SummaryAgreesWithReport ==
    ReportSucceeded =>
        /\ summary.data_points_analyzed = out.result.data.total_records_analyzed
        /\ summary.sustainability_score =
               out.result.data.overall_sustainability_score
        /\ summary.key_recommendations =
               FirstThree(out.result.data.recommendations)
        /\ summary.key_recommendations =
               out.result.data.priority_recommendations

=============================================================================
